---- MODULE Spec2Model ----
(***************************************************************************)
(* A model of the video library: the signal analyzers (motion_detector.py, *)
(* tempo_detector.py, ai_tagger.py, autoplay_detector.py), the categorizer *)
(* and the rows it reads and writes (auto_categorizer.py, database.py),    *)
(* the user table (auth.py) and the scraping control of the web interface  *)
(* (web_ui.py).                                                            *)
(*                                                                         *)
(* The components share no state, so each has its own specification: its   *)
(* Init draws the input from a bounded set, its actions run the code, and  *)
(* the other components' variables rest at their Off values.               *)
(*                                                                         *)
(* Units.  Flow magnitudes are in tenths (0.5 is 5, 10.0 is 100), tempi in *)
(* whole beats per minute, tempo stability in hundredths, tempo confidence *)
(* and palette percentages in thousandths.                                 *)
(***************************************************************************)
EXTENDS Integers, Sequences, FiniteSets, TLC

VARIABLES
    magnitude, motion_level,                    \* _classify_motion_level
    video, motion_result,                       \* analyze_motion
    scene_video, scene_pc, prev_frame,
    frame_idx, scene_changes, scene_result,     \* detect_scene_changes
    bpm, tempo_category,                        \* _categorize_tempo
    audio, tempo_result,                        \* analyze_tempo
    label_counts, colors,                       \* extract_dominant_colors
    mp4, fs_pc, f_tell, atom_idx, fs_result,    \* _check_mp4_faststart
    video_file, result,                         \* analyze_video
    db_video, db_tags, db_moods, db_use_cases,  \* the stored clip's rows
    category_scores, best_category,             \* categorize_video
    use_cases, calls,                           \* suggest_use_cases
    environ, USERS, auth_call, auth_calls,      \* auth.py
    scraping_state, scraping_thread, threads,
    response, stored_clips,                     \* web_ui.py: scraping
    categories, init_runs, init_main, init_sub  \* _initialize_categories

classifyVars == <<magnitude, motion_level>>
motionVars   == <<video, motion_result>>
sceneVars    == <<scene_video, scene_pc, prev_frame, frame_idx, scene_changes,
                  scene_result>>
categoryVars == <<bpm, tempo_category>>
tempoVars    == <<audio, tempo_result>>
colorVars    == <<label_counts, colors>>
fsVars       == <<mp4, fs_pc, f_tell, atom_idx, fs_result>>
autoplayVars == <<video_file, result>>
categorizerVars == <<db_video, db_tags, db_moods, db_use_cases,
                     category_scores, best_category, use_cases, calls>>
authVars == <<environ, USERS, auth_call, auth_calls>>
scrapingVars == <<scraping_state, scraping_thread, threads, response,
                  stored_clips>>
tableVars == <<categories, init_runs, init_main, init_sub>>

vars == <<classifyVars, motionVars, sceneVars, categoryVars, tempoVars,
          colorVars, fsVars, autoplayVars, categorizerVars, authVars,
          scrapingVars, tableVars>>

\* The value of an output that no call has produced yet.
Unset == "unset"

-----------------------------------------------------------------------------
(* Helpers *)

RECURSIVE SumSeq(_)
SumSeq(s) == IF s = <<>> THEN 0 ELSE Head(s) + SumSeq(Tail(s))

Min(a, b) == IF a < b THEN a ELSE b
Max(a, b) == IF a > b THEN a ELSE b

-----------------------------------------------------------------------------
(* motion_detector.py: MotionDetector._classify_motion_level *)

\* Largest flow magnitude drawn, in tenths.
MaxMagnitude == 120

\* MOTION_LEVELS in the order the dict is written (and iterated); the last
\* band's upper end is float('inf').
MOTION_LEVELS ==
    << [level |-> "static",   min_val |-> 0,   max_val |-> 5,   inf |-> FALSE],
       [level |-> "slow",     min_val |-> 5,   max_val |-> 20,  inf |-> FALSE],
       [level |-> "moderate", min_val |-> 20,  max_val |-> 50,  inf |-> FALSE],
       [level |-> "fast",     min_val |-> 50,  max_val |-> 100, inf |-> FALSE],
       [level |-> "intense",  min_val |-> 100, max_val |-> 0,   inf |-> TRUE] >>

\* min_val <= magnitude < max_val
InMotionBand(m, band) == band.min_val <= m /\ (band.inf \/ m < band.max_val)

\* The same test with the upper end taken inclusive.
InMotionBandClosed(m, band) == band.min_val <= m /\ (band.inf \/ m <= band.max_val)

RECURSIVE ClassifyFrom(_, _)
ClassifyFrom(m, i) ==
    IF i > Len(MOTION_LEVELS) THEN "intense"
    ELSE IF InMotionBand(m, MOTION_LEVELS[i]) THEN MOTION_LEVELS[i].level
    ELSE ClassifyFrom(m, i + 1)

RECURSIVE ClassifyClosedFrom(_, _)
ClassifyClosedFrom(m, i) ==
    IF i > Len(MOTION_LEVELS) THEN "intense"
    ELSE IF InMotionBandClosed(m, MOTION_LEVELS[i]) THEN MOTION_LEVELS[i].level
    ELSE ClassifyClosedFrom(m, i + 1)

\* A classifier whose bands own their upper boundary.
classify_motion_level_closed(m) == ClassifyClosedFrom(m, 1)

classify_motion_level(m) == ClassifyFrom(m, 1)

ClassifyInit == magnitude \in 0..MaxMagnitude /\ motion_level = Unset
ClassifyOff  == magnitude = 0 /\ motion_level = Unset

ClassifyMotionLevel ==
    /\ motion_level = Unset
    /\ motion_level' = classify_motion_level(magnitude)
    /\ UNCHANGED magnitude

-----------------------------------------------------------------------------
(* motion_detector.py: MotionDetector.analyze_motion *)

\* Largest frame count drawn (CAP_PROP_FRAME_COUNT).
MaxFrames == 4

\* The default of the sample_frames parameter.
DefaultSampleFrames == 30

\* The other sample_frames value drawn.
SmallSampleFrames == 2

\* What the optical flow of one frame pair can come to: mean magnitude in
\* tenths, and the percentage of pixels whose magnitude exceeds 0.5.
FlowChoices ==
    { [mag |-> 0, area |-> 0], [mag |-> 12, area |-> 30],
      [mag |-> 60, area |-> 70], [mag |-> 120, area |-> 50] }

\* A clip: whether VideoCapture opens it, its frame count, the frame indices
\* at which cap.read() fails, the flow of the k-th pair of frames read, and
\* the sample_frames argument.
Videos ==
    [ opened : BOOLEAN,
      total_frames : 0..MaxFrames,
      unreadable : SUBSET (0..(MaxFrames - 2)),
      flows : [1..(MaxFrames - 2) -> FlowChoices],
      sample_frames : {SmallSampleFrames, DefaultSampleFrames} ]

NoResult == [kind |-> "unset"]

\* return None
NoneResult == [kind |-> "None"]

\* The dict returned for a clip of fewer than 2 frames, and for a clip no
\* flow could be computed of.
StaticResult ==
    [ kind |-> "dict", motion_level |-> "static", motion_score |-> 0,
      optical_flow_magnitude |-> 0, motion_areas_percentage |-> 0,
      camera_motion |-> FALSE, object_motion |-> FALSE ]

\* np.linspace(0, stop, num, dtype=int)
Linspace(stop, num) ==
    [k \in 1..num |-> IF num = 1 THEN 0 ELSE ((k - 1) * stop) \div (num - 1)]

\* The subsequence of the sampled indices whose frame is read.
RECURSIVE FramesRead(_, _)
FramesRead(indices, unreadable) ==
    IF indices = <<>> THEN <<>>
    ELSE IF Head(indices) \in unreadable
         THEN FramesRead(Tail(indices), unreadable)
         ELSE <<Head(indices)>> \o FramesRead(Tail(indices), unreadable)

RECURSIVE MaxSeq(_)
MaxSeq(s) == IF Len(s) = 1 THEN s[1] ELSE Max(Head(s), MaxSeq(Tail(s)))

analyze_motion(v) ==
    IF ~v.opened THEN NoneResult
    ELSE IF v.total_frames < 2 THEN StaticResult
    ELSE
      LET frame_indices == Linspace(v.total_frames - 2,
                                    Min(v.sample_frames, v.total_frames - 1))
          read == FramesRead(frame_indices, v.unreadable)
          n == IF Len(read) = 0 THEN 0 ELSE Len(read) - 1
          motion_magnitudes == [k \in 1..n |-> v.flows[k].mag]
          motion_area_percentages == [k \in 1..n |-> v.flows[k].area]
      IN IF n = 0 THEN StaticResult
         ELSE
           LET mag_sum == SumSeq(motion_magnitudes)
               area_sum == SumSeq(motion_area_percentages)
               avg_motion_magnitude == mag_sum \div n
           IN [ kind |-> "dict",
                motion_level |-> classify_motion_level(avg_motion_magnitude),
                motion_score |-> Min(100, avg_motion_magnitude),
                optical_flow_magnitude |-> avg_motion_magnitude,
                max_motion_magnitude |-> MaxSeq(motion_magnitudes),
                motion_areas_percentage |-> area_sum \div n,
                camera_motion |-> area_sum > 60 * n,
                object_motion |-> area_sum < 40 * n /\ mag_sum > 10 * n ]

MotionInit == video \in Videos /\ motion_result = NoResult
MotionOff ==
    /\ video = [ opened |-> FALSE, total_frames |-> 0, unreadable |-> {},
                 flows |-> [k \in 1..(MaxFrames - 2) |-> [mag |-> 0, area |-> 0]],
                 sample_frames |-> DefaultSampleFrames ]
    /\ motion_result = NoResult

AnalyzeMotion ==
    /\ motion_result = NoResult
    /\ motion_result' = analyze_motion(video)
    /\ UNCHANGED video

-----------------------------------------------------------------------------
(* motion_detector.py: MotionDetector.detect_scene_changes *)

\* Most frames a clip of the scene scan holds.
MaxSceneFrames == 3

\* The default of the threshold parameter.
DefaultThreshold == 30

\* A frame is drawn as a uniform image of one intensity, so that the mean
\* absolute difference of two frames is the difference of their intensities.
Intensities == {0, 25, 60}

Thresholds == {0, DefaultThreshold}

FrameSeqs == UNION { [1..n -> Intensities] : n \in 0..MaxSceneFrames }

\* np.mean(cv2.absdiff(prev_frame, gray))
mean_diff(a, b) == IF a < b THEN b - a ELSE a - b

\* if mean_diff >= threshold
scene_change_at_or_above(d, threshold) == d >= threshold

\* if mean_diff > threshold
scene_change(d, threshold) == d > threshold

SceneInit ==
    /\ scene_video \in [opened : BOOLEAN, frames : FrameSeqs, threshold : Thresholds]
    /\ scene_pc = "start"
    /\ prev_frame = <<>>
    /\ frame_idx = 0
    /\ scene_changes = <<>>
    /\ scene_result = <<>>

SceneOff ==
    /\ scene_video = [opened |-> FALSE, frames |-> <<>>, threshold |-> DefaultThreshold]
    /\ scene_pc = "start"
    /\ prev_frame = <<>>
    /\ frame_idx = 0
    /\ scene_changes = <<>>
    /\ scene_result = <<>>

\* cap = cv2.VideoCapture(video_path); if not cap.isOpened(): return []
SceneNotOpened ==
    /\ scene_pc = "start"
    /\ ~scene_video.opened
    /\ scene_result' = <<>>
    /\ scene_pc' = "done"
    /\ UNCHANGED <<scene_video, prev_frame, frame_idx, scene_changes>>

\* scene_changes = [0]; prev_frame = None; frame_idx = 0
SceneOpened ==
    /\ scene_pc = "start"
    /\ scene_video.opened
    /\ scene_changes' = <<0>>
    /\ prev_frame' = <<>>
    /\ frame_idx' = 0
    /\ scene_pc' = "loop"
    /\ UNCHANGED <<scene_video, scene_result>>

\* One turn of the while loop in which cap.read() gives a frame.  prev_frame
\* is <<>> for None and <<gray>> otherwise.
SceneReadFrame ==
    /\ scene_pc = "loop"
    /\ frame_idx < Len(scene_video.frames)
    /\ LET gray == scene_video.frames[frame_idx + 1]
       IN /\ scene_changes' =
                IF /\ prev_frame # <<>>
                   /\ scene_change(mean_diff(prev_frame[1], gray), scene_video.threshold)
                THEN Append(scene_changes, frame_idx)
                ELSE scene_changes
          /\ prev_frame' = <<gray>>
    /\ frame_idx' = frame_idx + 1
    /\ UNCHANGED <<scene_video, scene_pc, scene_result>>

\* if not ret: break; cap.release(); return scene_changes
SceneEnd ==
    /\ scene_pc = "loop"
    /\ frame_idx >= Len(scene_video.frames)
    /\ scene_result' = scene_changes
    /\ scene_pc' = "done"
    /\ UNCHANGED <<scene_video, prev_frame, frame_idx, scene_changes>>

-----------------------------------------------------------------------------
(* tempo_detector.py: TempoDetector._categorize_tempo *)

\* Largest tempo drawn, in beats per minute.
MaxBpm == 320

\* TEMPO_CATEGORIES in the order the dict is written (and iterated).
TEMPO_CATEGORIES ==
    << [category |-> "very_slow",      min_bpm |-> 0,   max_bpm |-> 60],
       [category |-> "slow",           min_bpm |-> 60,  max_bpm |-> 90],
       [category |-> "moderate",       min_bpm |-> 90,  max_bpm |-> 120],
       [category |-> "fast",           min_bpm |-> 120, max_bpm |-> 150],
       [category |-> "very_fast",      min_bpm |-> 150, max_bpm |-> 200],
       [category |-> "extremely_fast", min_bpm |-> 200, max_bpm |-> 300] >>

\* The return statements after the loop.
AfterTempoLoop(b) == IF b = 0 THEN "none" ELSE "extremely_fast"

RECURSIVE CategorizeFrom(_, _)
CategorizeFrom(b, i) ==
    IF i > Len(TEMPO_CATEGORIES) THEN AfterTempoLoop(b)
    ELSE IF TEMPO_CATEGORIES[i].min_bpm <= b /\ b < TEMPO_CATEGORIES[i].max_bpm
         THEN TEMPO_CATEGORIES[i].category
         ELSE CategorizeFrom(b, i + 1)

\* The loop with each band owning its upper end instead of its lower one.
RECURSIVE CategorizeUpperFrom(_, _)
CategorizeUpperFrom(b, i) ==
    IF i > Len(TEMPO_CATEGORIES) THEN AfterTempoLoop(b)
    ELSE IF TEMPO_CATEGORIES[i].min_bpm < b /\ b <= TEMPO_CATEGORIES[i].max_bpm
         THEN TEMPO_CATEGORIES[i].category
         ELSE CategorizeUpperFrom(b, i + 1)

categorize_tempo_upper(b) == CategorizeUpperFrom(b, 1)

categorize_tempo(b) == CategorizeFrom(b, 1)

CategoryInit == bpm \in 0..MaxBpm /\ tempo_category = Unset
CategoryOff  == bpm = 0 /\ tempo_category = Unset

CategorizeTempo ==
    /\ tempo_category = Unset
    /\ tempo_category' = categorize_tempo(bpm)
    /\ UNCHANGED bpm

-----------------------------------------------------------------------------
(* tempo_detector.py: TempoDetector.analyze_tempo *)

\* Most beats the tracker reports.
MaxBeats == 6

\* The gaps between two beats, in a unit of time that the stability, a ratio,
\* does not depend on.
BeatGaps == {1, 8}

\* Beat times: strictly increasing, the first beat at time 1.
RECURSIVE BeatTimes(_, _)
BeatTimes(first, gaps) ==
    IF gaps = <<>> THEN <<first>>
    ELSE <<first>> \o BeatTimes(first + Head(gaps), Tail(gaps))

BeatSeqs ==
    {<<>>} \cup
    UNION { { BeatTimes(1, g) : g \in [1..n -> BeatGaps] } : n \in 0..(MaxBeats - 1) }

\* What the tracker reports as tempo: a float, or an array of no or one float.
TempoShapes == {"float", "array0", "array1"}
TempoValues == {0, 128}

\* mean(rms) * 100, before the clamp.
RmsValues == {0, 150}

\* The audio of a clip, by what the library calls of analyze_tempo do with it:
\* librosa.load raises, or returns no samples, or returns samples that the
\* later feature calls raise on, or all calls succeed.
Audios ==
    [ outcome : {"load_raises", "empty", "feature_raises", "ok"},
      tempo_shape : TempoShapes,
      tempo : TempoValues,
      beats : BeatSeqs,
      rms : RmsValues ]

\* _empty_result
EmptyResult ==
    [ kind |-> "dict", bpm |-> 0, tempo_category |-> "none", tempo_confidence |-> 0,
      beat_times |-> <<>>, num_beats |-> 0, has_rhythm |-> FALSE,
      energy_level |-> 0, spectral_centroid |-> 0, tempo_stability |-> 0 ]

\* np.diff(beats)
Diff(beats) == [k \in 1..(Len(beats) - 1) |-> beats[k + 1] - beats[k]]

SumSquares(s) == SumSeq([k \in 1..Len(s) |-> s[k] * s[k]])

\* n * sum(d^2) - sum(d)^2: the variance of the intervals times n^2.
Spread(d) == Len(d) * SumSquares(d) - SumSeq(d) * SumSeq(d)

\* std/mean of the intervals in hundredths, rounded to the nearest one and
\* capped at 100: the r with (r - 1/2)^2 <= 10^4 * Spread/sum^2 < (r + 1/2)^2.
CoefficientOfVariation(d) ==
    LET S == SumSeq(d)
        X == 40000 * Spread(d)
    IN IF X >= 199 * 199 * S * S THEN 100
       ELSE CHOOSE r \in 0..99 :
              /\ (r = 0 \/ (2 * r - 1) * (2 * r - 1) * S * S <= X)
              /\ X < (2 * r + 1) * (2 * r + 1) * S * S

\* max(0.0, min(1.0, 1.0 - std/mean)), in hundredths; 1.0 - 1.0 when the
\* mean is not positive.
TempoStability(beats) ==
    IF Len(beats) > 1
    THEN IF SumSeq(Diff(beats)) > 0
         THEN 100 - CoefficientOfVariation(Diff(beats))
         ELSE 0
    ELSE 0

\* tempo_stability > 0.3 on the unrounded value: std/mean < 0.7.
StabilityAbove30(beats) ==
    /\ Len(beats) > 1
    /\ SumSeq(Diff(beats)) > 0
    /\ LET d == Diff(beats)
       IN 100 * Spread(d) < 49 * SumSeq(d) * SumSeq(d)

\* bpm = float(tempo[0]) if len(tempo) > 0 else 0.0, or float(tempo)
BpmOf(a) == IF a.tempo_shape = "array0" THEN 0 ELSE a.tempo

\* has_rhythm = len(beats) > 4 and tempo_stability > 0.3
has_rhythm_of(a) == Len(a.beats) > 4 /\ StabilityAbove30(a.beats)

analyze_tempo(a) ==
    IF a.outcome \in {"load_raises", "empty", "feature_raises"} THEN EmptyResult
    ELSE
      [ kind |-> "dict",
        bpm |-> BpmOf(a),
        tempo_category |-> categorize_tempo(BpmOf(a)),
        tempo_confidence |-> IF Len(a.beats) > 1 THEN Min(1000, Len(a.beats) * 10) ELSE 0,
        beat_times |-> a.beats,
        num_beats |-> Len(a.beats),
        has_rhythm |-> has_rhythm_of(a),
        energy_level |-> Min(100, a.rms),
        spectral_centroid |-> 0,    \* the mean centroid is not drawn
        tempo_stability |-> TempoStability(a.beats) ]

TempoInit == audio \in Audios /\ tempo_result = NoResult
TempoOff ==
    /\ audio = [ outcome |-> "empty", tempo_shape |-> "float", tempo |-> 0,
                 beats |-> <<>>, rms |-> 0 ]
    /\ tempo_result = NoResult

AnalyzeTempo ==
    /\ tempo_result = NoResult
    /\ tempo_result' = analyze_tempo(audio)
    /\ UNCHANGED audio

-----------------------------------------------------------------------------
(* ai_tagger.py: AITagger.extract_dominant_colors *)

\* cv2.resize(frame, (150, 150)): the side of the frame the pixels are of.
ResizedSide == 150

\* len(labels): one label per pixel of the resized frame.
total_pixels == ResizedSide * ResizedSide

\* Most clusters asked for (num_colors).
MaxColors == 3

\* How far from an even share the drawn cluster sizes go.
MaxSkew == 4

\* The sizes drawn for each cluster but the last: none, or near an even share.
ClusterSizes(k) ==
    {0} \cup { (total_pixels \div k) + d : d \in (0 - MaxSkew)..MaxSkew }

\* The assignments of the pixels to k clusters, by the size of each cluster
\* (Counter(labels.flatten()), read with label_counts.get(i, 0)): the sizes
\* add up to the number of pixels.
LabelCountsOf(k) ==
    { [i \in 1..k |-> IF i < k THEN f[i] ELSE total_pixels - SumSeq(f)] :
        f \in { g \in [1..(k - 1) -> ClusterSizes(k)] : SumSeq(g) <= total_pixels } }

\* n / d in thousandths, rounded up instead of to the nearest.
Round3Up(n, d) ==
    IF (1000 * n) % d = 0 THEN (1000 * n) \div d ELSE ((1000 * n) \div d) + 1

\* round(n / d, 3) in thousandths: to the nearest, a tie to the even one.
Round3(n, d) ==
    LET q == (1000 * n) \div d
        r == (1000 * n) % d
    IN IF 2 * r > d THEN q + 1
       ELSE IF 2 * r < d THEN q
       ELSE IF q % 2 = 0 THEN q ELSE q + 1

\* The colors list before it is sorted; the centre of a cluster (hex, rgb,
\* name) is kept as the cluster's number.
ColorEntries(counts) ==
    [i \in 1..Len(counts) |->
        [cluster |-> i, percentage |-> Round3(counts[i], total_pixels)]]

\* colors.sort(key=percentage, reverse=True): stable, so entries of equal
\* percentage keep their order.
RECURSIVE InsertDescending(_, _)
InsertDescending(sorted, e) ==
    IF sorted = <<>> THEN <<e>>
    ELSE IF Head(sorted).percentage >= e.percentage
         THEN <<Head(sorted)>> \o InsertDescending(Tail(sorted), e)
         ELSE <<e>> \o sorted

RECURSIVE SortDescending(_)
SortDescending(es) ==
    IF es = <<>> THEN <<>>
    ELSE InsertDescending(SortDescending(SubSeq(es, 1, Len(es) - 1)), es[Len(es)])

extract_dominant_colors(counts) == SortDescending(ColorEntries(counts))

ColorInit ==
    /\ label_counts \in UNION { LabelCountsOf(k) : k \in 1..MaxColors }
    /\ colors = <<>>
ColorOff == label_counts = <<total_pixels>> /\ colors = <<>>

ExtractDominantColors ==
    /\ colors = <<>>
    /\ colors' = extract_dominant_colors(label_counts)
    /\ UNCHANGED label_counts

-----------------------------------------------------------------------------
(* autoplay_detector.py: AutoplayDetector._check_mp4_faststart *)

\* Most box headers a drawn file holds.
MaxAtoms == 3

\* if f.tell() > 1024 * 1024
OneMB == 1048576

AtomTypes == {"ftyp", "moov", "mdat", "free"}

\* The size fields of well-formed boxes: a box of a header alone, a box of a
\* header and one byte, a small box, and a box of 1MB.
AtomSizes == {8, 9, 16, OneMB}

\* Size fields no box can have (0 and 1 stand for "to the end of the file" and
\* "a 64-bit size follows"); drawn for the last header only, since where the
\* next box starts is then not given by the size.
BadAtomSizes == {0, 1}

\* A file is drawn as the box headers it holds (4-byte big-endian size, 4-byte
\* type), each box starting where the one before it ends; fewer than 8 bytes
\* follow the last header drawn.  The first 8 bytes of the file are the first
\* header, and hold b'ftyp' when it is the header of an ftyp box.
AtomSeqs ==
    UNION { { a \in [1..n -> [size : AtomSizes \cup BadAtomSizes, type : AtomTypes]] :
                \A i \in 1..(n - 1) : a[i].size \in AtomSizes } : n \in 0..MaxAtoms }

Mp4Files == [can_open : BOOLEAN, atoms : AtomSeqs]

\* The offset at which the i-th header starts.
AtomOffset(atoms, i) == SumSeq([j \in 1..(i - 1) |-> atoms[j].size])

\* fs_result is the value returned: it is read once fs_pc is "done" and holds
\* FALSE until then, a boolean throughout.
FsInit ==
    /\ mp4 \in Mp4Files
    /\ fs_pc = "open"
    /\ f_tell = 0
    /\ atom_idx = 1
    /\ fs_result = FALSE
FsOff ==
    /\ mp4 = [can_open |-> FALSE, atoms |-> <<>>]
    /\ fs_pc = "open"
    /\ f_tell = 0
    /\ atom_idx = 1
    /\ fs_result = FALSE

FsReturn(value) ==
    /\ fs_pc' = "done"
    /\ fs_result' = value
    /\ UNCHANGED <<mp4, f_tell, atom_idx>>

\* open(video_path, 'rb') raises: except Exception: return False
FsOpenFails ==
    /\ fs_pc = "open"
    /\ ~mp4.can_open
    /\ FsReturn(FALSE)

\* header = f.read(8); if len(header) < 8: return False
FsShortFile ==
    /\ fs_pc = "open"
    /\ mp4.can_open
    /\ Len(mp4.atoms) = 0
    /\ FsReturn(FALSE)

\* if b'ftyp' in header: fails, and the function ends in return False
FsNoFtyp ==
    /\ fs_pc = "open"
    /\ mp4.can_open
    /\ Len(mp4.atoms) > 0
    /\ mp4.atoms[1].type # "ftyp"
    /\ FsReturn(FALSE)

\* if b'ftyp' in header: f.seek(0)
FsSeekStart ==
    /\ fs_pc = "open"
    /\ mp4.can_open
    /\ Len(mp4.atoms) > 0
    /\ mp4.atoms[1].type = "ftyp"
    /\ fs_pc' = "loop"
    /\ f_tell' = 0
    /\ atom_idx' = 1
    /\ UNCHANGED <<mp4, fs_result>>

\* atom_header = f.read(8); if len(atom_header) < 8: break
FsTruncated ==
    /\ fs_pc = "loop"
    /\ atom_idx > Len(mp4.atoms)
    /\ FsReturn(FALSE)

\* if atom_type == b'moov': return True
FsFoundMoov ==
    /\ fs_pc = "loop"
    /\ atom_idx <= Len(mp4.atoms)
    /\ mp4.atoms[atom_idx].type = "moov"
    /\ FsReturn(TRUE)

\* if atom_type == b'mdat': return False
FsFoundMdat ==
    /\ fs_pc = "loop"
    /\ atom_idx <= Len(mp4.atoms)
    /\ mp4.atoms[atom_idx].type = "mdat"
    /\ FsReturn(FALSE)

\* The loop without the test of line 196: a box of 8 bytes or fewer is
\* skipped like any other.
FsSmallAtomSkips ==
    /\ fs_pc = "loop"
    /\ atom_idx <= Len(mp4.atoms)
    /\ mp4.atoms[atom_idx].type \notin {"moov", "mdat"}
    /\ mp4.atoms[atom_idx].size <= 8
    /\ f_tell' = f_tell + mp4.atoms[atom_idx].size
    /\ atom_idx' = atom_idx + 1
    /\ UNCHANGED <<mp4, fs_pc, fs_result>>

\* if atom_size <= 8: break
FsSmallAtom ==
    /\ fs_pc = "loop"
    /\ atom_idx <= Len(mp4.atoms)
    /\ mp4.atoms[atom_idx].type \notin {"moov", "mdat"}
    /\ mp4.atoms[atom_idx].size <= 8
    /\ FsReturn(FALSE)

\* f.seek(f.tell() + atom_size - 8), f.tell() being 8 past the header's start;
\* if f.tell() > 1024 * 1024: break
FsPastLimit ==
    /\ fs_pc = "loop"
    /\ atom_idx <= Len(mp4.atoms)
    /\ mp4.atoms[atom_idx].type \notin {"moov", "mdat"}
    /\ mp4.atoms[atom_idx].size > 8
    /\ f_tell + mp4.atoms[atom_idx].size > OneMB
    /\ fs_pc' = "done"
    /\ fs_result' = FALSE
    /\ f_tell' = f_tell + mp4.atoms[atom_idx].size
    /\ atom_idx' = atom_idx + 1
    /\ UNCHANGED mp4

\* The same seek, the loop going on to the next header.
FsSkipAtom ==
    /\ fs_pc = "loop"
    /\ atom_idx <= Len(mp4.atoms)
    /\ mp4.atoms[atom_idx].type \notin {"moov", "mdat"}
    /\ mp4.atoms[atom_idx].size > 8
    /\ f_tell + mp4.atoms[atom_idx].size <= OneMB
    /\ f_tell' = f_tell + mp4.atoms[atom_idx].size
    /\ atom_idx' = atom_idx + 1
    /\ UNCHANGED <<mp4, fs_pc, fs_result>>

-----------------------------------------------------------------------------
(* autoplay_detector.py: AutoplayDetector.analyze_video *)

WEB_COMPATIBLE_VIDEO_CODECS == {"h264", "vp8", "vp9", "av1"}
WEB_COMPATIBLE_AUDIO_CODECS == {"aac", "mp3", "vorbis", "opus"}
WEB_COMPATIBLE_CONTAINERS == {".mp4", ".webm", ".ogv"}

\* Most streams ffprobe lists for a drawn file.
MaxStreams == 2

\* Python's None.
None == "None"

\* str.lower(), on the extensions and codec names drawn.
Lower(str) ==
    CASE str = ".MP4" -> ".mp4"
      [] str = ".MKV" -> ".mkv"
      [] str = "HEVC" -> "hevc"
      [] str = "FLAC" -> "flac"
      [] OTHER -> str

\* os.path.splitext(video_path)[1]
Extensions == {".mp4", ".MP4", ".webm", ".ogv", ".mkv", ".MKV", ".avi", ""}

\* A stream of ffprobe's JSON: its codec_type and its codec_name, None for a
\* stream that has no codec_name.
Streams ==
    [codec_type : {"video"}, codec_name : {"h264", "HEVC", None}] \cup
    [codec_type : {"audio"}, codec_name : {"aac", "FLAC", None}]

StreamSeqs == UNION { [1..n -> Streams] : n \in 0..MaxStreams }

\* What running ffprobe on the file comes to: an exception (a non-zero exit,
\* output that is no JSON), or the streams, whether format_name holds 'mp4',
\* and what _check_mp4_faststart answers for the file.
FfprobeRuns ==
    { [ok |-> FALSE, streams |-> <<>>, format_mp4 |-> FALSE, faststart |-> FALSE] } \cup
    [ok : {TRUE}, streams : StreamSeqs, format_mp4 : BOOLEAN, faststart : BOOLEAN]

\* cv2.VideoCapture(video_path): not opened, or opened with the fps it reports.
Captures == {"closed", "fps_zero", "fps_25"}

\* A path given to analyze_video, with the detector's has_ffprobe.
VideoFiles ==
    [ exists : BOOLEAN,
      ext : Extensions,
      over_50mb : BOOLEAN,
      capture : Captures,
      has_ffprobe : BOOLEAN,
      ffprobe : FfprobeRuns ]

\* The issue strings, by their fixed text and the value formatted into it.
ContainerIssue(ext) ==
    [text |-> "Container format '{}' may not be web-compatible", arg |-> ext]
VideoCodecIssue(codec) ==
    [text |-> "Video codec '{}' may not be web-compatible", arg |-> codec]
AudioCodecIssue(codec) ==
    [text |-> "Audio codec '{}' may not be web-compatible", arg |-> codec]
UnknownCodecIssue ==
    [text |-> "Unknown codec - install ffmpeg for detection", arg |-> ""]
LargeFileIssue ==
    [text |-> "Large file size ({}MB) may cause buffering", arg |-> "size"]

\* critical in issue, for critical in
\* ['may not be web-compatible', 'Unknown codec']
IsCritical(issue) ==
    \/ issue.text \in { "Container format '{}' may not be web-compatible",
                        "Video codec '{}' may not be web-compatible",
                        "Audio codec '{}' may not be web-compatible" }
    \/ issue.text = "Unknown codec - install ffmpeg for detection"

\* dict.update: the keys of info replace those of the result.
Update(r, info) ==
    [k \in DOMAIN r \cup DOMAIN info |-> IF k \in DOMAIN info THEN info[k] ELSE r[k]]

\* The codec of the first stream of a type, lowercased; 'unknown' for a
\* stream without codec_name; None when there is no such stream.
RECURSIVE FirstCodec(_, _)
FirstCodec(streams, type) ==
    IF streams = <<>> THEN None
    ELSE IF Head(streams).codec_type = type
         THEN IF Head(streams).codec_name = None THEN "unknown"
              ELSE Lower(Head(streams).codec_name)
         ELSE FirstCodec(Tail(streams), type)

\* _get_codec_info_ffprobe, for a run of ffprobe that raised nothing.
get_codec_info_ffprobe(run) ==
    LET video_codec == FirstCodec(run.streams, "video")
        audio_codec == FirstCodec(run.streams, "audio")
        video_issues ==
            IF video_codec # None /\ video_codec \notin WEB_COMPATIBLE_VIDEO_CODECS
            THEN <<VideoCodecIssue(video_codec)>> ELSE <<>>
        audio_issues ==
            IF audio_codec # None /\ audio_codec \notin WEB_COMPATIBLE_AUDIO_CODECS
            THEN <<AudioCodecIssue(audio_codec)>> ELSE <<>>
        info == [ video_codec |-> video_codec, audio_codec |-> audio_codec,
                  compatibility_issues |-> video_issues \o audio_issues ]
    IN IF run.format_mp4
       THEN Update(info, [ is_web_optimized |-> run.faststart,
                           moov_atom_position |->
                               IF run.faststart THEN "start" ELSE "end" ])
       ELSE info

basic_compatibility_check(ext) ==
    IF Lower(ext) = ".mp4"
    THEN [ video_codec |-> "h264 (assumed)", audio_codec |-> "aac (assumed)",
           is_web_optimized |-> FALSE, compatibility_issues |-> <<>> ]
    ELSE IF Lower(ext) = ".webm"
    THEN [ video_codec |-> "vp8 (assumed)", audio_codec |-> "vorbis (assumed)",
           is_web_optimized |-> FALSE, compatibility_issues |-> <<>> ]
    ELSE [ video_codec |-> "unknown", audio_codec |-> "unknown",
           is_web_optimized |-> FALSE,
           compatibility_issues |-> <<UnknownCodecIssue>> ]

\* The loop over the issues with no exemption for .mp4: any critical issue
\* ends it with False.
NoCriticalIssue(r) ==
    \A i \in 1..Len(r.compatibility_issues) :
        ~IsCritical(r.compatibility_issues[i])

\* The loop over the issues: a critical issue of a file that is no .mp4 ends
\* it with False.
NoFailingIssue(r) ==
    \A i \in 1..Len(r.compatibility_issues) :
        IsCritical(r.compatibility_issues[i]) => r.container_format = ".mp4"

\* _determine_compatibility without its check of the container.
determine_compatibility_by_issues(r) ==
    IF "error" \in DOMAIN r THEN FALSE
    ELSE NoFailingIssue(r)

determine_compatibility(r) ==
    IF "error" \in DOMAIN r THEN FALSE
    ELSE IF r.container_format \notin WEB_COMPATIBLE_CONTAINERS THEN FALSE
    ELSE NoFailingIssue(r)

analyze_video(f) ==
    IF ~f.exists
    THEN [kind |-> "dict", autoplay_compatible |-> FALSE, error |-> "File not found"]
    ELSE
      LET r0 == [ kind |-> "dict",
                  autoplay_compatible |-> FALSE,
                  container_format |-> Lower(f.ext),
                  video_codec |-> None,
                  audio_codec |-> None,
                  is_web_optimized |-> FALSE,
                  moov_atom_position |-> "unknown",
                  file_size_mb |-> IF f.over_50mb THEN 51 ELSE 1,
                  duration |-> IF f.capture = "fps_25" THEN 2 ELSE 0,
                  resolution |-> IF f.capture = "closed"
                                 THEN <<0, 0>> ELSE <<640, 480>>,
                  compatibility_issues |->
                      IF Lower(f.ext) \notin WEB_COMPATIBLE_CONTAINERS
                      THEN <<ContainerIssue(f.ext)>> ELSE <<>> ]
          r1 == IF f.has_ffprobe
                THEN IF f.ffprobe.ok
                     THEN Update(r0, get_codec_info_ffprobe(f.ffprobe))
                     ELSE r0
                ELSE Update(r0, basic_compatibility_check(f.ext))
          r2 == IF f.over_50mb
                THEN [r1 EXCEPT !.compatibility_issues = Append(@, LargeFileIssue)]
                ELSE r1
      IN [r2 EXCEPT !.autoplay_compatible = determine_compatibility(r2)]

AutoplayInit == video_file \in VideoFiles /\ result = NoResult
AutoplayOff ==
    /\ video_file = [ exists |-> FALSE, ext |-> "", over_50mb |-> FALSE,
                      capture |-> "closed", has_ffprobe |-> FALSE,
                      ffprobe |-> [ok |-> FALSE, streams |-> <<>>,
                                   format_mp4 |-> FALSE, faststart |-> FALSE] ]
    /\ result = NoResult

AnalyzeVideo ==
    /\ result = NoResult
    /\ result' = analyze_video(video_file)
    /\ UNCHANGED video_file

-----------------------------------------------------------------------------
(* Python strings: str.lower, str.join, the in operator *)

UpperCaseLetters == "ABCDEFGHIJKLMNOPQRSTUVWXYZ"
LowerCaseLetters == "abcdefghijklmnopqrstuvwxyz"

\* The lowercase letter of each uppercase letter.
LowerOf ==
    [ c \in { SubSeq(UpperCaseLetters, i, i) : i \in 1..Len(UpperCaseLetters) } |->
        LET i == CHOOSE k \in 1..Len(UpperCaseLetters) :
                     SubSeq(UpperCaseLetters, k, k) = c
        IN SubSeq(LowerCaseLetters, i, i) ]

\* c.lower() for one character.
LowerChar(c) == IF c \in DOMAIN LowerOf THEN LowerOf[c] ELSE c

\* str.lower(), character by character.
RECURSIVE lower(_)
lower(str) ==
    IF str = "" THEN ""
    ELSE LowerChar(SubSeq(str, 1, 1)) \o lower(SubSeq(str, 2, Len(str)))

\* ' '.join(strs)
RECURSIVE Join(_)
Join(strs) ==
    IF strs = <<>> THEN ""
    ELSE IF Len(strs) = 1 THEN strs[1]
    ELSE strs[1] \o " " \o Join(Tail(strs))

\* needle in text: needle occurs in text as a substring.
In(needle, text) ==
    \E i \in 0..(Len(text) - Len(needle)) :
        SubSeq(text, i + 1, i + Len(needle)) = needle

\* any(x in xs): membership of a list.
InList(x, xs) == \E i \in 1..Len(xs) : xs[i] = x

-----------------------------------------------------------------------------
(* database.py: VideoDatabase, the rows of one stored clip *)

\* Largest number of tag rows drawn for a clip that is categorized.
MaxTags == 3

\* Largest number of tag rows drawn for a clip that use cases are suggested
\* for.
MaxRuleTags == 1

\* Largest number of calls of categorize_video and suggest_use_cases made.
MaxCalls == 2

\* tag_value of the tag rows drawn.
TagValues == {"nature", "Forest", "wildlife", "river", "calm"}

\* tag_value of the tag rows drawn where use cases are suggested.
RuleTagValues == {"nature", "calm"}

\* energy_level drawn (a REAL column, 0 to 100).
Energies == {40, 70}

\* A nullable REAL column: the empty sequence for NULL, <<x>> for x.
Null == <<>>

\* The videos row of the clip as add_video can leave it: the columns that
\* categorize_video and suggest_use_cases read; a TEXT column holds None for
\* NULL.
VideoRows ==
    [ category : {None, "", "Nature"},
      motion_level : {None, "slow"},
      energy_level : {Null} \cup { <<e>> : e \in Energies } ]

TagLists(values, n) == UNION { [1..k -> values] : k \in 0..n }

\* mood_type of the moods rows: add_mood adds one row per analysis.
MoodLists == { <<>>, <<"positive">> }

\* UPDATE videos SET category = ? WHERE id = ?
update_video_category(row, category) == [row EXCEPT !.category = category]

\* INSERT INTO use_cases (video_id, use_case, suitability_score, description).
\* suitability_score is kept as the fraction it was computed from: 100 *
\* score / max_score.
add_use_case(rows, use_case, score, max_score) ==
    Append(rows, [use_case |-> use_case, score |-> score, max_score |-> max_score])

\* dict[key] = value: the value of a key already there is replaced in place,
\* a new key is entered last.
DictSet(d, key, value) ==
    IF \E i \in 1..Len(d) : d[i].name = key
    THEN [i \in 1..Len(d) |-> IF d[i].name = key
                              THEN [name |-> key, score |-> value] ELSE d[i]]
    ELSE Append(d, [name |-> key, score |-> value])

-----------------------------------------------------------------------------
(* auto_categorizer.py: AutoCategorizer.categorize_video *)

CATEGORY_HIERARCHY ==
    << [ category |-> "Nature",
         subcategories |-> <<"Forest", "Ocean", "Mountains", "Sky", "Desert",
                             "Wildlife", "Flowers", "Weather">>,
         keywords |-> <<"nature", "natural", "outdoor", "landscape",
                        "scenic", "wilderness">> ],
       [ category |-> "Urban",
         subcategories |-> <<"City", "Street", "Architecture", "Traffic",
                             "Night City", "Downtown">>,
         keywords |-> <<"city", "urban", "building", "street", "downtown",
                        "metropolitan", "architecture">> ],
       [ category |-> "Abstract",
         subcategories |-> <<"Geometric", "Particles", "Fluid", "Patterns",
                             "Light Effects", "Fractals">>,
         keywords |-> <<"abstract", "geometric", "pattern", "particle",
                        "fluid", "fractal", "light">> ],
       [ category |-> "Space",
         subcategories |-> <<"Stars", "Planets", "Nebula", "Galaxy",
                             "Astronaut", "Satellites">>,
         keywords |-> <<"space", "star", "planet", "galaxy", "cosmic",
                        "universe", "nebula", "celestial">> ],
       [ category |-> "Water",
         subcategories |-> <<"Ocean", "River", "Lake", "Rain", "Waterfall",
                             "Underwater">>,
         keywords |-> <<"water", "ocean", "sea", "river", "lake", "rain",
                        "waves", "underwater">> ],
       [ category |-> "Fire",
         subcategories |-> <<"Flames", "Sparks", "Explosion", "Candles",
                             "Campfire">>,
         keywords |-> <<"fire", "flame", "burn", "spark", "explosion",
                        "heat", "candle">> ],
       [ category |-> "Technology",
         subcategories |-> <<"Digital", "Code", "Interface", "Data",
                             "Glitch", "Futuristic">>,
         keywords |-> <<"tech", "digital", "computer", "code", "data",
                        "interface", "screen", "cyber">> ],
       [ category |-> "People",
         subcategories |-> <<"Portraits", "Groups", "Activities",
                             "Silhouettes", "Crowds">>,
         keywords |-> <<"people", "person", "human", "crowd", "portrait",
                        "silhouette", "group">> ],
       [ category |-> "Textures",
         subcategories |-> <<"Wood", "Metal", "Fabric", "Stone", "Paper",
                             "Glass">>,
         keywords |-> <<"texture", "material", "surface", "wood", "metal",
                        "fabric", "stone">> ],
       [ category |-> "Motion",
         subcategories |-> <<"Timelapse", "Slow Motion", "Spin", "Zoom",
                             "Pan", "Tracking">>,
         keywords |-> <<"timelapse", "slow motion", "movement", "motion",
                        "dynamic", "action">> ] >>

\* tag_text: the tag values, lowercased and joined by a space.
TagText(tags) == Join([i \in 1..Len(tags) |-> lower(tags[i])])

\* The score a candidate "Category > Subcategory" holding 5 whatever the
\* category has scored.
SubcategoryScoreFixed(score) == 5

\* The score a candidate "Category > Subcategory" is recorded with, from the
\* category's score at the moment its name is found.
SubcategoryScore(score) == score + 5

\* for keyword in data['keywords']: the score after the first n keywords.
RECURSIVE ScoreKeywords(_, _, _)
ScoreKeywords(keywords, n, tag_text) ==
    IF n = 0 THEN 0
    ELSE ScoreKeywords(keywords, n - 1, tag_text)
         + (IF In(keywords[n], tag_text) THEN 2 ELSE 0)

\* for subcategory in data['subcategories']: the score, and the candidates
\* entered into the dict, after the first n subcategories.
RECURSIVE ScoreSubcategories(_, _, _)
ScoreSubcategories(data, n, tag_text) ==
    IF n = 0
    THEN [ score |-> ScoreKeywords(data.keywords, Len(data.keywords), tag_text),
           entered |-> <<>> ]
    ELSE LET before == ScoreSubcategories(data, n - 1, tag_text)
             subcategory == data.subcategories[n]
         IN IF In(lower(subcategory), tag_text)
            THEN [ score |-> before.score + 3,
                   entered |->
                       DictSet(before.entered,
                               data.category \o " > " \o subcategory,
                               SubcategoryScore(before.score + 3)) ]
            ELSE before

\* One pass of the loop over CATEGORY_HIERARCHY: the keys the category
\* enters into the dict, its candidates and then, if it scored, itself.
ScoreCategory(data, tag_text) ==
    LET after == ScoreSubcategories(data, Len(data.subcategories), tag_text)
    IN IF after.score > 0
       THEN DictSet(after.entered, data.category, after.score)
       ELSE after.entered

\* for category, data in CATEGORY_HIERARCHY.items(): the dict after the
\* first n categories.  No key is entered by two categories, the keys of a
\* category starting with its name, so each pass adds its keys at the end.
RECURSIVE ScoreCategories(_, _)
ScoreCategories(n, tag_text) ==
    IF n = 0 THEN <<>>
    ELSE ScoreCategories(n - 1, tag_text)
         \o ScoreCategory(CATEGORY_HIERARCHY[n], tag_text)

\* The largest score of a dict that is not empty.
MaxScore(d) ==
    CHOOSE m \in { d[i].score : i \in 1..Len(d) } :
        \A i \in 1..Len(d) : d[i].score <= m

\* The last key of the largest score.
max_by_score_last(d) ==
    d[CHOOSE i \in 1..Len(d) :
          /\ d[i].score = MaxScore(d)
          /\ \A j \in (i + 1)..Len(d) : d[j].score # MaxScore(d)].name

\* max(category_scores, key=category_scores.get): the first key, in the order
\* of the dict, of the largest score.
max_by_score(d) ==
    d[CHOOSE i \in 1..Len(d) :
          /\ d[i].score = MaxScore(d)
          /\ \A j \in 1..(i - 1) : d[j].score # MaxScore(d)].name

\* categorize_video for the stored clip: the dict it builds, what it returns,
\* and the videos row it leaves.
categorize_video(row, tags) ==
    IF tags = <<>>
    THEN [ category_scores |-> <<>>, best_category |-> "Uncategorized",
           row |-> row ]
    ELSE LET scores == ScoreCategories(Len(CATEGORY_HIERARCHY), TagText(tags))
             best == IF scores # <<>> THEN max_by_score(scores)
                     ELSE "Uncategorized"
         IN [ category_scores |-> scores, best_category |-> best,
              row |-> update_video_category(row, best) ]

CategorizeVideo ==
    /\ calls < MaxCalls
    /\ LET r == categorize_video(db_video, db_tags)
       IN /\ category_scores' = r.category_scores
          /\ best_category' = r.best_category
          /\ db_video' = r.row
    /\ calls' = calls + 1
    /\ UNCHANGED <<db_tags, db_moods, db_use_cases, use_cases>>

-----------------------------------------------------------------------------
(* auto_categorizer.py: AutoCategorizer.suggest_use_cases *)

USE_CASE_RULES ==
    << [ use_case |-> "Wedding Videos",
         keywords |-> <<"romantic", "love", "elegant", "beautiful", "flower",
                        "sunset">>,
         moods |-> <<"positive">>,
         motion |-> <<"slow", "moderate">>,
         categories |-> <<"Nature", "Flowers", "Sky">> ],
       [ use_case |-> "Party/Event Videos",
         keywords |-> <<"energetic", "vibrant", "colorful", "lights",
                        "crowd", "celebration">>,
         moods |-> <<"positive">>,
         motion |-> <<"fast", "intense">>,
         energy_min |-> 60 ],
       [ use_case |-> "Meditation/Relaxation",
         keywords |-> <<"calm", "peaceful", "serene", "nature", "water",
                        "forest">>,
         moods |-> <<"neutral">>,
         motion |-> <<"static", "slow">>,
         energy_max |-> 30 ],
       [ use_case |-> "Corporate/Business",
         keywords |-> <<"professional", "modern", "clean", "tech", "office",
                        "city">>,
         moods |-> <<"neutral", "positive">>,
         motion |-> <<"slow", "moderate">>,
         categories |-> <<"Urban", "Technology">> ],
       [ use_case |-> "Music Videos (Upbeat)",
         keywords |-> <<"energetic", "dynamic", "colorful", "abstract",
                        "lights">>,
         moods |-> <<"positive">>,
         motion |-> <<"fast", "intense">>,
         energy_min |-> 50 ],
       [ use_case |-> "Music Videos (Emotional)",
         keywords |-> <<"dramatic", "emotional", "cinematic", "moody">>,
         moods |-> <<"negative", "neutral">>,
         motion |-> <<"slow", "moderate">> ],
       [ use_case |-> "Sports/Action",
         keywords |-> <<"fast", "action", "dynamic", "intense", "movement">>,
         motion |-> <<"fast", "intense">>,
         energy_min |-> 70 ],
       [ use_case |-> "Nature Documentaries",
         keywords |-> <<"nature", "wildlife", "landscape", "scenic",
                        "natural">>,
         categories |-> <<"Nature", "Water", "Mountains", "Forest">>,
         motion |-> <<"slow", "moderate">> ],
       [ use_case |-> "Travel/Tourism",
         keywords |-> <<"landscape", "scenic", "beautiful", "exotic",
                        "destination">>,
         categories |-> <<"Nature", "Urban", "Ocean", "Mountains">>,
         moods |-> <<"positive">> ],
       [ use_case |-> "Tech/Startup Presentations",
         keywords |-> <<"tech", "digital", "modern", "innovative",
                        "futuristic">>,
         categories |-> <<"Technology", "Abstract">>,
         motion |-> <<"moderate", "fast">> ],
       [ use_case |-> "Horror/Thriller",
         keywords |-> <<"dark", "mysterious", "eerie", "fog", "shadows">>,
         moods |-> <<"negative">>,
         motion |-> <<"slow", "moderate">> ],
       [ use_case |-> "Children/Family Content",
         keywords |-> <<"bright", "colorful", "cheerful", "playful", "fun">>,
         moods |-> <<"positive">>,
         categories |-> <<"Nature", "Abstract">> ] >>

\* The truth value of a string read from a TEXT column: None and '' are
\* false.
Truthy(s) == s # None /\ s # ""

\* What one criterion adds to score and to max_score.
Weights(score, max_score) == [score |-> score, max_score |-> max_score]

\* if 'keywords' in rules
KeywordsCriterion(rules, tag_text) ==
    IF "keywords" \in DOMAIN rules
    THEN Weights(2 * Cardinality({ i \in 1..Len(rules.keywords) :
                                     In(rules.keywords[i], tag_text) }),
                 2 * Len(rules.keywords))
    ELSE Weights(0, 0)

\* if 'moods' in rules
MoodsCriterion(rules, moods) ==
    IF "moods" \in DOMAIN rules
    THEN Weights(IF \E i \in 1..Len(moods) : InList(moods[i], rules.moods)
                 THEN 3 ELSE 0, 3)
    ELSE Weights(0, 0)

\* if 'motion' in rules and motion_level
MotionCriterion(rules, motion_level_of_clip) ==
    IF "motion" \in DOMAIN rules /\ Truthy(motion_level_of_clip)
    THEN Weights(IF InList(motion_level_of_clip, rules.motion) THEN 2 ELSE 0, 2)
    ELSE Weights(0, 0)

\* if 'categories' in rules and category
CategoriesCriterion(rules, category) ==
    IF "categories" \in DOMAIN rules /\ Truthy(category)
    THEN Weights(IF \E i \in 1..Len(rules.categories) :
                       In(lower(rules.categories[i]), category)
                 THEN 3 ELSE 0, 3)
    ELSE Weights(0, 0)

\* if 'energy_min' in rules, for an energy that is not None
EnergyMinCriterion(rules, energy) ==
    IF "energy_min" \in DOMAIN rules
    THEN Weights(IF energy[1] >= rules.energy_min THEN 2 ELSE 0, 2)
    ELSE Weights(0, 0)

\* if 'energy_max' in rules, for an energy that is not None
EnergyMaxCriterion(rules, energy) ==
    IF "energy_max" \in DOMAIN rules
    THEN Weights(IF energy[1] <= rules.energy_max THEN 2 ELSE 0, 2)
    ELSE Weights(0, 0)

\* energy >= rules['energy_min'] and energy <= rules['energy_max'] raise
\* TypeError for an energy of None.
ComparesNone(rules, energy) ==
    /\ energy = Null
    /\ "energy_min" \in DOMAIN rules \/ "energy_max" \in DOMAIN rules

\* score and max_score of one use case, for a clip whose energy the rule can
\* compare.
ScoreUseCase(rules, v) ==
    LET cs == << KeywordsCriterion(rules, v.tag_text),
                 MoodsCriterion(rules, v.moods),
                 MotionCriterion(rules, v.motion_level),
                 CategoriesCriterion(rules, v.category),
                 EnergyMinCriterion(rules, v.energy),
                 EnergyMaxCriterion(rules, v.energy) >>
    IN Weights(SumSeq([k \in 1..Len(cs) |-> cs[k].score]),
               SumSeq([k \in 1..Len(cs) |-> cs[k].max_score]))

\* round(suitability, 1), in tenths of a percent, of the suitability
\* (score / max_score) * 100: to the nearest tenth, a half to the even one.
Round1(score, max_score) ==
    LET q == (1000 * score) \div max_score
        r == (1000 * score) % max_score
    IN IF 2 * r > max_score THEN q + 1
       ELSE IF 2 * r < max_score THEN q
       ELSE IF q % 2 = 0 THEN q ELSE q + 1

\* suitability >= 30
Suitable(score, max_score) == 100 * score >= 30 * max_score

\* use_cases.sort(key=..., reverse=True): a stable sort, equal scores keep
\* the order they were appended in.
RECURSIVE InsertBySuitability(_, _)
InsertBySuitability(sorted, e) ==
    IF sorted = <<>> THEN <<e>>
    ELSE IF Head(sorted).suitability_score >= e.suitability_score
         THEN <<Head(sorted)>> \o InsertBySuitability(Tail(sorted), e)
         ELSE <<e>> \o sorted

RECURSIVE SortBySuitability(_)
SortBySuitability(es) ==
    IF es = <<>> THEN <<>>
    ELSE InsertBySuitability(SortBySuitability(SubSeq(es, 1, Len(es) - 1)),
                             es[Len(es)])

\* return use_cases
Returned(entries) == [kind |-> "list", entries |-> entries]

\* An exception leaves suggest_use_cases.
Raised(error) == [kind |-> "raises", error |-> error]

\* for use_case_name, rules in use_case_rules.items(): the exception raised
\* ("" for none), the entries appended and the use_cases rows after the first
\* n rules.
RECURSIVE SuggestLoop(_, _, _)
SuggestLoop(n, v, rows) ==
    IF n = 0 THEN [raised |-> "", entries |-> <<>>, rows |-> rows]
    ELSE LET before == SuggestLoop(n - 1, v, rows)
             rules == USE_CASE_RULES[n]
             s == ScoreUseCase(rules, v)
         IN IF before.raised # "" THEN before
            ELSE IF ComparesNone(rules, v.energy)
            THEN [before EXCEPT !.raised = "TypeError"]
            ELSE IF s.max_score > 0 /\ Suitable(s.score, s.max_score)
            THEN [ raised |-> "",
                   entries |->
                       Append(before.entries,
                              [ use_case |-> rules.use_case,
                                suitability_score |->
                                    Round1(s.score, s.max_score) ]),
                   rows |-> add_use_case(before.rows, rules.use_case,
                                         s.score, s.max_score) ]
            ELSE before

\* The loop over all the rules, then the sort: the list returned or the
\* exception raised, and the use_cases rows as the call leaves them.
SuggestFrom(v, rows) ==
    LET after == SuggestLoop(Len(USE_CASE_RULES), v, rows)
    IN [ result |-> IF after.raised # "" THEN Raised(after.raised)
                    ELSE Returned(SortBySuitability(after.entries)),
         rows |-> after.rows ]

\* suggest_use_cases for the stored clip; video.get('category', '').lower()
\* raises AttributeError for a category of None.
suggest_use_cases(row, tags, moods, rows) ==
    IF row.category = None
    THEN [result |-> Raised("AttributeError"), rows |-> rows]
    ELSE SuggestFrom([ category |-> lower(row.category),
                       tag_text |-> TagText(tags),
                       moods |-> moods,
                       motion_level |-> row.motion_level,
                       energy |-> row.energy_level ],
                     rows)

SuggestUseCases ==
    /\ calls < MaxCalls
    /\ LET r == suggest_use_cases(db_video, db_tags, db_moods, db_use_cases)
       IN /\ use_cases' = r.result
          /\ db_use_cases' = r.rows
    /\ calls' = calls + 1
    /\ UNCHANGED <<db_video, db_tags, db_moods, category_scores, best_category>>

\* The clips categorize_video is run on: rows as the pipeline's add_video
\* leaves them (motion_level and energy_level NULL), with or without a
\* category.
CategorizeInit ==
    /\ db_video \in { r \in VideoRows :
                        r.motion_level = None /\ r.energy_level = Null }
    /\ db_tags \in TagLists(TagValues, MaxTags)
    /\ db_moods = <<>>
    /\ db_use_cases = <<>>
    /\ category_scores = <<>>
    /\ best_category = Unset
    /\ use_cases = NoResult
    /\ calls = 0

\* Largest number of tag rows drawn for a clip whose tags are single words
\* of the names and keywords of two words.
MaxPhraseTags == 2

\* tag_value of those rows.
PhraseTagValues == {"night", "city", "slow", "motion", "light", "effects"}

\* The clips categorize_video is run on to compare the orders of their tags.
ReorderInit ==
    /\ db_video \in { r \in VideoRows :
                        r.motion_level = None /\ r.energy_level = Null }
    /\ db_tags \in TagLists(PhraseTagValues, MaxPhraseTags)
    /\ db_moods = <<>>
    /\ db_use_cases = <<>>
    /\ category_scores = <<>>
    /\ best_category = Unset
    /\ use_cases = NoResult
    /\ calls = 0

\* The clips use cases are suggested for.
UseCaseInit ==
    /\ db_video \in VideoRows
    /\ db_tags \in TagLists(RuleTagValues, MaxRuleTags)
    /\ db_moods \in MoodLists
    /\ db_use_cases = <<>>
    /\ category_scores = <<>>
    /\ best_category = Unset
    /\ use_cases = NoResult
    /\ calls = 0

CategorizerOff ==
    /\ db_video = [category |-> None, motion_level |-> None,
                   energy_level |-> Null]
    /\ db_tags = <<>>
    /\ db_moods = <<>>
    /\ db_use_cases = <<>>
    /\ category_scores = <<>>
    /\ best_category = Unset
    /\ use_cases = NoResult
    /\ calls = 0

-----------------------------------------------------------------------------
(* auth.py: USERS, authenticate_user, create_user, change_password *)

\* Largest number of calls of the functions of auth.py made.
MaxAuthCalls == 2

\* The user names and the passwords drawn, as arguments and as values of
\* the environment variables.
Usernames == {"admin", "testadmin", "newuser"}
Passwords == {"changeme123", "testpass123", "newpass123"}

\* os.environ at import: ADMIN_USERNAME and ADMIN_PASSWORD, None when unset.
Environs ==
    [ ADMIN_USERNAME : {None, "testadmin"},
      ADMIN_PASSWORD : {None, "testpass123"} ]

\* os.environ.get(name, default)
EnvironGet(env, name, default) ==
    IF env[name] = None THEN default ELSE env[name]

\* werkzeug's generate_password_hash and check_password_hash: a hash
\* verifies the password it was generated from and no other.
generate_password_hash(password) == [method |-> "hash", of |-> password]
check_password_hash(pwhash, password) == pwhash = generate_password_hash(password)

\* User(user_id, username, password_hash); ids are the decimal strings of
\* these numbers.
User(user_id, username, password_hash) ==
    [id |-> user_id, username |-> username, password_hash |-> password_hash]

\* The module's USERS dict after import, as the list of its items.
InitialUsers(env) ==
    << [ key |-> "admin",
         user |-> User(1, EnvironGet(env, "ADMIN_USERNAME", "admin"),
                       generate_password_hash(
                           EnvironGet(env, "ADMIN_PASSWORD", "changeme123"))) ] >>

\* USERS.get(username): the user under the key, None without it.
UsersGet(users, username) ==
    IF \E i \in 1..Len(users) : users[i].key = username
    THEN users[CHOOSE i \in 1..Len(users) : users[i].key = username].user
    ELSE NoneResult

\* USERS[username] = user
UsersSet(users, username, user) ==
    IF \E i \in 1..Len(users) : users[i].key = username
    THEN [i \in 1..Len(users) |->
            IF users[i].key = username
            THEN [key |-> username, user |-> user] ELSE users[i]]
    ELSE Append(users, [key |-> username, user |-> user])

authenticate_user(users, username, password) ==
    LET user == UsersGet(users, username)
    IN IF user # NoneResult /\ check_password_hash(user.password_hash, password)
       THEN user ELSE NoneResult

create_user(users, username, password) ==
    User(Len(users) + 1, username, generate_password_hash(password))

AuthenticateUser ==
    /\ auth_calls < MaxAuthCalls
    /\ \E username \in Usernames, password \in Passwords :
          auth_call' = [ kind |-> "authenticate_user", username |-> username,
                         password |-> password,
                         returned |-> authenticate_user(USERS, username, password) ]
    /\ auth_calls' = auth_calls + 1
    /\ UNCHANGED <<environ, USERS>>

CreateUser ==
    /\ auth_calls < MaxAuthCalls
    /\ \E username \in Usernames, password \in Passwords :
          LET user == create_user(USERS, username, password)
          IN /\ USERS' = UsersSet(USERS, username, user)
             /\ auth_call' = [ kind |-> "create_user", username |-> username,
                               password |-> password, returned |-> user ]
    /\ auth_calls' = auth_calls + 1
    /\ UNCHANGED environ

ChangePassword ==
    /\ auth_calls < MaxAuthCalls
    /\ \E username \in Usernames, old_password \in Passwords,
          new_password \in Passwords :
          LET user == authenticate_user(USERS, username, old_password)
          IN /\ USERS' =
                  IF user # NoneResult
                  THEN UsersSet(USERS, username,
                                [user EXCEPT !.password_hash =
                                     generate_password_hash(new_password)])
                  ELSE USERS
             /\ auth_call' = [ kind |-> "change_password",
                               username |-> username,
                               old_password |-> old_password,
                               new_password |-> new_password,
                               returned |-> user # NoneResult ]
    /\ auth_calls' = auth_calls + 1
    /\ UNCHANGED environ

AuthInit ==
    /\ environ \in Environs
    /\ USERS = InitialUsers(environ)
    /\ auth_call = NoResult
    /\ auth_calls = 0

AuthOff ==
    /\ environ = [ADMIN_USERNAME |-> None, ADMIN_PASSWORD |-> None]
    /\ USERS = InitialUsers(environ)
    /\ auth_call = NoResult
    /\ auth_calls = 0

-----------------------------------------------------------------------------
(* web_ui.py: scraping_state, start_scraping, stop_scraping and the          *)
(* background thread run_scraping_pipeline                                   *)
(*                                                                           *)
(* A request handler runs as one step, and a pipeline thread runs as one     *)
(* step the statements between two of its long calls (the download, the      *)
(* clipping, the analysis of one clip).  The interpreter can switch threads  *)
(* between any two statements: that adds interleavings to the ones here and  *)
(* removes none.                                                             *)

\* Largest number of pipeline threads started.
MaxThreads == 2

\* Largest number of videos batch_download returns, and of clips
\* process_batch returns.
MaxVideos == 1
MaxClips == 2

\* len(queries) of a start request; the default list has three.
QueryCounts == {1, 3}

\* The module's scraping_state at import.
IdleState ==
    [ running |-> FALSE, progress |-> 0, status |-> "idle",
      current_task |-> "", videos_processed |-> 0, clips_created |-> 0,
      error |-> None ]

\* The dict start_scraping rebinds scraping_state to.
StartingState ==
    [ running |-> TRUE, progress |-> 0, status |-> "starting",
      current_task |-> "Initializing...", videos_processed |-> 0,
      clips_created |-> 0, error |-> None ]

\* A thread running run_scraping_pipeline: its position and its locals.
NewThread(queries) ==
    [ pc |-> "start", queries |-> queries, downloaded_videos |-> 0,
      total_clips |-> 0, i |-> 0 ]

Finished(thread) == [thread EXCEPT !.pc = "done"]

\* except Exception as e: the handler of the pipeline's outer try.
PipelineError(state, e) ==
    [state EXCEPT !.error = e, !.status = "error", !.running = FALSE]

\* start_scraping: refused while running is set, else the state is reset and
\* a thread started.
StartScraping ==
    \E queries \in QueryCounts :
        IF scraping_state.running
        THEN /\ response' = [code |-> 400, error |-> "Scraping already in progress"]
             /\ UNCHANGED <<scraping_state, scraping_thread, threads,
                            stored_clips>>
        ELSE /\ Len(threads) < MaxThreads
             /\ scraping_state' = StartingState
             /\ threads' = Append(threads, NewThread(queries))
             /\ scraping_thread' = Len(threads) + 1
             /\ response' = [code |-> 200, message |-> "Scraping started"]
             /\ UNCHANGED stored_clips

\* stop_scraping: refused unless running is set.
StopScraping ==
    /\ IF ~scraping_state.running
       THEN /\ response' = [code |-> 400, error |-> "No scraping in progress"]
            /\ UNCHANGED scraping_state
       ELSE /\ scraping_state' =
                  [scraping_state EXCEPT !.running = FALSE,
                                         !.status = "stopped",
                                         !.current_task = "Stopped by user"]
            /\ response' = [code |-> 200, message |-> "Scraping stopped"]
    /\ UNCHANGED <<scraping_thread, threads, stored_clips>>

\* Lines 306-326: the imports, the reset of the state, the making of the
\* scraper, clipper and tagger, and the entry to the download; an exception
\* of the imports goes to the handler.
PipelineBegin(t) ==
    /\ threads[t].pc = "start"
    /\ \E raises \in BOOLEAN :
          IF raises
          THEN /\ scraping_state' = PipelineError(scraping_state, "ImportError")
               /\ threads' = [threads EXCEPT ![t] = Finished(@)]
          ELSE /\ scraping_state' =
                     [scraping_state EXCEPT
                         !.running = TRUE, !.progress = 0, !.error = None,
                         !.status = "downloading",
                         !.current_task =
                             "Downloading videos for "
                                 \o ToString(threads[t].queries) \o " queries"]
               /\ threads' = [threads EXCEPT ![t].pc = "downloading"]
    /\ UNCHANGED <<scraping_thread, response, stored_clips>>

\* Lines 327-338: batch_download returns; without a video the thread ends,
\* else it enters the clipping.
PipelineDownloaded(t) ==
    /\ threads[t].pc = "downloading"
    /\ \E n \in 0..MaxVideos, raises \in BOOLEAN :
          IF raises
          THEN /\ scraping_state' = PipelineError(scraping_state, "download failed")
               /\ threads' = [threads EXCEPT ![t] = Finished(@)]
          ELSE IF n = 0
          THEN /\ scraping_state' =
                     [scraping_state EXCEPT
                         !.videos_processed = 0, !.progress = 25,
                         !.error = "No videos downloaded", !.running = FALSE]
               /\ threads' = [threads EXCEPT ![t] = Finished(@)]
          ELSE /\ scraping_state' =
                     [scraping_state EXCEPT
                         !.videos_processed = n, !.progress = 25,
                         !.status = "clipping",
                         !.current_task =
                             "Clipping " \o ToString(n) \o " videos"]
               /\ threads' = [threads EXCEPT ![t].pc = "clipping",
                                             ![t].downloaded_videos = n]
    /\ UNCHANGED <<scraping_thread, response, stored_clips>>

\* Lines 340-351: process_batch returns; without a clip the thread ends,
\* else it enters the loop over the clips.
PipelineClipped(t) ==
    /\ threads[t].pc = "clipping"
    /\ \E n \in 0..MaxClips, raises \in BOOLEAN :
          IF raises
          THEN /\ scraping_state' = PipelineError(scraping_state, "clipping failed")
               /\ threads' = [threads EXCEPT ![t] = Finished(@)]
          ELSE IF n = 0
          THEN /\ scraping_state' =
                     [scraping_state EXCEPT
                         !.clips_created = 0, !.progress = 50,
                         !.error = "No clips created", !.running = FALSE]
               /\ threads' = [threads EXCEPT ![t] = Finished(@)]
          ELSE /\ scraping_state' =
                     [scraping_state EXCEPT
                         !.clips_created = n, !.progress = 50,
                         !.status = "analyzing"]
               /\ threads' = [threads EXCEPT ![t].pc = "analyzing",
                                             ![t].total_clips = n,
                                             ![t].i = 0]
    /\ UNCHANGED <<scraping_thread, response, stored_clips>>

\* Lines 353-405: one pass of the loop while running is set; the clip is
\* stored unless its frames or its analysis are missing or a call raises.
PipelineAnalyzeClip(t) ==
    /\ threads[t].pc = "analyzing"
    /\ threads[t].i < threads[t].total_clips
    /\ scraping_state.running
    /\ scraping_state' =
          [scraping_state EXCEPT
              !.current_task =
                  "Analyzing clip " \o ToString(threads[t].i + 1) \o "/"
                      \o ToString(threads[t].total_clips),
              !.progress =
                  50 + ((threads[t].i * 50) \div threads[t].total_clips)]
    /\ \E stored \in BOOLEAN :
          stored_clips' = IF stored THEN stored_clips + 1 ELSE stored_clips
    /\ threads' = [threads EXCEPT ![t].i = @ + 1]
    /\ UNCHANGED <<scraping_thread, response>>

\* Lines 354-355 and 407-410: the loop ends, by its last clip or by the
\* running flag found unset, and the thread reports completion.
PipelineCompleted(t) ==
    /\ threads[t].pc = "analyzing"
    /\ \/ threads[t].i = threads[t].total_clips
       \/ ~scraping_state.running
    /\ scraping_state' =
          [scraping_state EXCEPT
              !.status = "completed", !.progress = 100,
              !.current_task =
                  "Completed! Processed "
                      \o ToString(scraping_state.clips_created) \o " clips",
              !.running = FALSE]
    /\ threads' = [threads EXCEPT ![t] = Finished(@)]
    /\ UNCHANGED <<scraping_thread, response, stored_clips>>

ScrapingInit ==
    /\ scraping_state = IdleState
    /\ scraping_thread = None
    /\ threads = <<>>
    /\ response = NoResult
    /\ stored_clips = 0

ScrapingOff == ScrapingInit

-----------------------------------------------------------------------------
(* auto_categorizer.py: AutoCategorizer._initialize_categories, run by every *)
(* construction of an AutoCategorizer; database.py: add_category             *)

\* Largest number of times the initialization is run.
MaxInits == 2

\* INSERT INTO categories (name, parent_category, description); name is
\* UNIQUE and the IntegrityError of a name already there is passed over.
add_category(rows, name, parent_category) ==
    IF \E i \in 1..Len(rows) : rows[i].name = name
    THEN rows
    ELSE Append(rows, [name |-> name, parent_category |-> parent_category])

\* Line 67: the main category of the outer loop's pass is added.
AddMainCategory ==
    /\ init_runs < MaxInits
    /\ init_sub = 0
    /\ categories' = add_category(categories,
                                  CATEGORY_HIERARCHY[init_main].category, None)
    /\ init_sub' = 1
    /\ UNCHANGED <<init_runs, init_main>>

\* Line 71: the next subcategory of the main category is added; after the
\* last one the outer loop passes on, and after the last main category the
\* initialization is over.
AddSubcategory ==
    /\ init_runs < MaxInits
    /\ init_sub > 0
    /\ LET data == CATEGORY_HIERARCHY[init_main]
           last == init_sub = Len(data.subcategories)
       IN /\ categories' = add_category(categories,
                                        data.subcategories[init_sub],
                                        data.category)
          /\ init_sub' = IF last THEN 0 ELSE init_sub + 1
          /\ init_main' = IF ~last THEN init_main
                          ELSE IF init_main = Len(CATEGORY_HIERARCHY) THEN 1
                          ELSE init_main + 1
          /\ init_runs' = IF last /\ init_main = Len(CATEGORY_HIERARCHY)
                          THEN init_runs + 1 ELSE init_runs

\* The categories table of a new database, before the first initialization.
CategoriesInit ==
    /\ categories = <<>>
    /\ init_runs = 0
    /\ init_main = 1
    /\ init_sub = 0

CategoriesOff == CategoriesInit

-----------------------------------------------------------------------------
(* Specifications: one analyzer runs, the others rest. *)

InitOf(g) ==
    /\ IF g = "classify" THEN ClassifyInit ELSE ClassifyOff
    /\ IF g = "motion" THEN MotionInit ELSE MotionOff
    /\ IF g = "scene" THEN SceneInit ELSE SceneOff
    /\ IF g = "category" THEN CategoryInit ELSE CategoryOff
    /\ IF g = "tempo" THEN TempoInit ELSE TempoOff
    /\ IF g = "color" THEN ColorInit ELSE ColorOff
    /\ IF g = "faststart" THEN FsInit ELSE FsOff
    /\ IF g = "autoplay" THEN AutoplayInit ELSE AutoplayOff
    /\ IF g = "categorize" THEN CategorizeInit
       ELSE IF g = "usecases" THEN UseCaseInit
       ELSE IF g = "reorder" THEN ReorderInit ELSE CategorizerOff
    /\ IF g = "auth" THEN AuthInit ELSE AuthOff
    /\ IF g = "scraping" THEN ScrapingInit ELSE ScrapingOff
    /\ IF g = "categories" THEN CategoriesInit ELSE CategoriesOff

InitClassify == InitOf("classify")
NextClassify ==
    ClassifyMotionLevel
    /\ UNCHANGED <<motionVars, sceneVars, categoryVars, tempoVars, colorVars,
                   fsVars, autoplayVars,
                   categorizerVars, authVars, scrapingVars, tableVars>>
SpecClassify == InitClassify /\ [][NextClassify]_vars

InitMotion == InitOf("motion")
NextMotion ==
    AnalyzeMotion
    /\ UNCHANGED <<classifyVars, sceneVars, categoryVars, tempoVars, colorVars,
                   fsVars, autoplayVars,
                   categorizerVars, authVars, scrapingVars, tableVars>>
SpecMotion == InitMotion /\ [][NextMotion]_vars

InitScene == InitOf("scene")
SceneRest ==
    UNCHANGED <<classifyVars, motionVars, categoryVars, tempoVars, colorVars,
                fsVars, autoplayVars,
                   categorizerVars, authVars, scrapingVars, tableVars>>
NextScene ==
    \/ SceneNotOpened /\ SceneRest
    \/ SceneOpened /\ SceneRest
    \/ SceneReadFrame /\ SceneRest
    \/ SceneEnd /\ SceneRest
SpecScene == InitScene /\ [][NextScene]_vars

InitCategory == InitOf("category")
NextCategory ==
    CategorizeTempo
    /\ UNCHANGED <<classifyVars, motionVars, sceneVars, tempoVars, colorVars,
                   fsVars, autoplayVars,
                   categorizerVars, authVars, scrapingVars, tableVars>>
SpecCategory == InitCategory /\ [][NextCategory]_vars

InitTempo == InitOf("tempo")
NextTempo ==
    AnalyzeTempo
    /\ UNCHANGED <<classifyVars, motionVars, sceneVars, categoryVars, colorVars,
                   fsVars, autoplayVars,
                   categorizerVars, authVars, scrapingVars, tableVars>>
SpecTempo == InitTempo /\ [][NextTempo]_vars

InitColor == InitOf("color")
NextColor ==
    ExtractDominantColors
    /\ UNCHANGED <<classifyVars, motionVars, sceneVars, categoryVars, tempoVars,
                   fsVars, autoplayVars,
                   categorizerVars, authVars, scrapingVars, tableVars>>
SpecColor == InitColor /\ [][NextColor]_vars

InitFaststart == InitOf("faststart")
FsRest ==
    UNCHANGED <<classifyVars, motionVars, sceneVars, categoryVars, tempoVars,
                colorVars, autoplayVars,
                   categorizerVars, authVars, scrapingVars, tableVars>>
NextFaststart ==
    \/ FsOpenFails /\ FsRest
    \/ FsShortFile /\ FsRest
    \/ FsNoFtyp /\ FsRest
    \/ FsSeekStart /\ FsRest
    \/ FsTruncated /\ FsRest
    \/ FsFoundMoov /\ FsRest
    \/ FsFoundMdat /\ FsRest
    \/ FsSmallAtom /\ FsRest
    \/ FsPastLimit /\ FsRest
    \/ FsSkipAtom /\ FsRest
SpecFaststart == InitFaststart /\ [][NextFaststart]_vars
\* The function is sequential code that runs on until it returns: a step
\* that can be taken is taken.  Every step moves the position of the scan.
fsPosition == <<fs_pc, f_tell, atom_idx>>
SpecFaststartLive == SpecFaststart /\ WF_fsPosition(NextFaststart)

InitAutoplay == InitOf("autoplay")
NextAutoplay ==
    AnalyzeVideo
    /\ UNCHANGED <<classifyVars, motionVars, sceneVars, categoryVars, tempoVars,
                   colorVars, fsVars,
                   categorizerVars, authVars, scrapingVars, tableVars>>
SpecAutoplay == InitAutoplay /\ [][NextAutoplay]_vars

InitCategorize == InitOf("categorize")
CategorizeRest ==
    UNCHANGED <<classifyVars, motionVars, sceneVars, categoryVars, tempoVars,
                colorVars, fsVars, autoplayVars, authVars, scrapingVars,
                tableVars>>
NextCategorize == CategorizeVideo /\ CategorizeRest
SpecCategorize == InitCategorize /\ [][NextCategorize]_vars

InitReorder == InitOf("reorder")
SpecReorder == InitReorder /\ [][NextCategorize]_vars

InitUseCases == InitOf("usecases")
NextUseCases ==
    \/ CategorizeVideo /\ CategorizeRest
    \/ SuggestUseCases /\ CategorizeRest
SpecUseCases == InitUseCases /\ [][NextUseCases]_vars

InitAuth == InitOf("auth")
AuthRest ==
    UNCHANGED <<classifyVars, motionVars, sceneVars, categoryVars, tempoVars,
                colorVars, fsVars, autoplayVars, categorizerVars,
                scrapingVars, tableVars>>
NextAuth ==
    \/ AuthenticateUser /\ AuthRest
    \/ CreateUser /\ AuthRest
    \/ ChangePassword /\ AuthRest
SpecAuth == InitAuth /\ [][NextAuth]_vars

InitScraping == InitOf("scraping")
ScrapingRest ==
    UNCHANGED <<classifyVars, motionVars, sceneVars, categoryVars, tempoVars,
                colorVars, fsVars, autoplayVars, categorizerVars, authVars,
                tableVars>>
NextScraping ==
    \/ StartScraping /\ ScrapingRest
    \/ StopScraping /\ ScrapingRest
    \/ \E t \in 1..Len(threads) :
          \/ PipelineBegin(t) /\ ScrapingRest
          \/ PipelineDownloaded(t) /\ ScrapingRest
          \/ PipelineClipped(t) /\ ScrapingRest
          \/ PipelineAnalyzeClip(t) /\ ScrapingRest
          \/ PipelineCompleted(t) /\ ScrapingRest
SpecScraping == InitScraping /\ [][NextScraping]_vars

InitCategories == InitOf("categories")
CategoriesRest ==
    UNCHANGED <<classifyVars, motionVars, sceneVars, categoryVars, tempoVars,
                colorVars, fsVars, autoplayVars, categorizerVars, authVars,
                scrapingVars>>
NextCategories ==
    \/ AddMainCategory /\ CategoriesRest
    \/ AddSubcategory /\ CategoriesRest
SpecCategories == InitCategories /\ [][NextCategories]_vars

-----------------------------------------------------------------------------
(* Claims about the motion analyzer *)

\* The band the specification gives a magnitude: [0, 0.5) static, [0.5, 2.0)
\* slow, [2.0, 5.0) moderate, [5.0, 10.0) fast, [10.0, oo) intense.
MotionBandOf(m) ==
    IF m < 5 THEN "static"
    ELSE IF m < 20 THEN "slow"
    ELSE IF m < 50 THEN "moderate"
    ELSE IF m < 100 THEN "fast"
    ELSE "intense"

\* C1: for every flow magnitude m >= 0, _classify_motion_level(m) is one of
\* the five levels, exactly one band of MOTION_LEVELS holds m (no gap, no
\* overlap) and it is the band returned, and the boundaries 0.5, 2.0, 5.0 and
\* 10.0 fall in the upper band (slow, moderate, fast, intense).
C1_MotionBandsPartition ==
    motion_level # Unset =>
        /\ motion_level \in {"static", "slow", "moderate", "fast", "intense"}
        /\ Cardinality({ i \in 1..Len(MOTION_LEVELS) :
                            InMotionBand(magnitude, MOTION_LEVELS[i]) }) = 1
        /\ \A i \in 1..Len(MOTION_LEVELS) :
              InMotionBand(magnitude, MOTION_LEVELS[i])
                  => motion_level = MOTION_LEVELS[i].level
        /\ motion_level = MotionBandOf(magnitude)

\* C1, its case: the boundary 10.0 is classified, as intense.
C1_Witness == magnitude = 100 /\ motion_level = "intense"

\* C6, as claimed: for every clip that cannot be opened or that has fewer
\* than 2 frames, analyze_motion returns the neutral signal (static, score 0,
\* magnitude 0, area 0, no camera motion, no object motion).
C6_UnreadableClipGivesNeutralSignal ==
    (motion_result.kind # "unset" /\ (~video.opened \/ video.total_frames < 2))
        => /\ motion_result.kind = "dict"
           /\ motion_result.motion_level = "static"
           /\ motion_result.motion_score = 0
           /\ motion_result.optical_flow_magnitude = 0
           /\ motion_result.motion_areas_percentage = 0
           /\ motion_result.camera_motion = FALSE
           /\ motion_result.object_motion = FALSE

\* The frame indices a scan of the clip should report after frame 0: those
\* i >= 1 whose frame differs from frame i - 1 by more than the threshold.
ChangedFrames(v) ==
    { i \in 1..(Len(v.frames) - 1) :
        mean_diff(v.frames[i], v.frames[i + 1]) > v.threshold }

\* A sequence that starts with frame 0, increases strictly, and holds after
\* frame 0 exactly the changed frames.
ReportsSceneChanges(r, v) ==
    /\ Len(r) >= 1
    /\ r[1] = 0
    /\ \A k \in 1..(Len(r) - 1) : r[k] < r[k + 1]
    /\ { r[k] : k \in 2..Len(r) } = ChangedFrames(v)

\* C7, as claimed: for every clip, readable or not, detect_scene_changes
\* returns frame 0 followed, in increasing order, by exactly the frames that
\* differ from their predecessor by more than the threshold.
C7_SceneChangesOfEveryClip ==
    scene_pc = "done" => ReportsSceneChanges(scene_result, scene_video)

\* C7, amended: that holds for every clip that can be opened; for a clip that
\* cannot be opened the function returns the empty sequence.
C7_SceneChangesOfOpenedClip ==
    scene_pc = "done" =>
        IF scene_video.opened
        THEN ReportsSceneChanges(scene_result, scene_video)
        ELSE scene_result = <<>>

\* C7, its case: a clip of three frames was scanned to its end, one of its
\* two frame pairs a scene change and the other not.
C7_Witness ==
    /\ scene_pc = "done"
    /\ scene_video.opened
    /\ Len(scene_video.frames) = 3
    /\ Len(scene_result) = 2

-----------------------------------------------------------------------------
(* Claims about the tempo analyzer *)

\* C2, as claimed: _categorize_tempo(0) is "none".
C2_ZeroTempoIsNone ==
    (tempo_category # Unset /\ bpm = 0) => tempo_category = "none"

\* The band the specification gives a tempo above 0: very_slow below 60, slow
\* below 90, moderate below 120, fast below 150, very_fast below 200, and
\* extremely_fast from 200 on.
TempoBandOf(b) ==
    IF b < 60 THEN "very_slow"
    ELSE IF b < 90 THEN "slow"
    ELSE IF b < 120 THEN "moderate"
    ELSE IF b < 150 THEN "fast"
    ELSE IF b < 200 THEN "very_fast"
    ELSE "extremely_fast"

\* C3: for every bpm > 0, 300 and more included, _categorize_tempo returns
\* the one category of its band; 60, 90, 120, 150 and 200 fall in the upper
\* band, and every bpm >= 200 is extremely_fast.
C3_PositiveTempoBands ==
    (tempo_category # Unset /\ bpm > 0) => tempo_category = TempoBandOf(bpm)

\* C3, its case: a tempo past the last band's end (300) was categorized.
C3_Witness == bpm = 300 /\ tempo_category = "extremely_fast"

\* The audio that analyze_tempo must answer with the empty signal: it cannot
\* be loaded, or is empty, or a later step raises, or it is silent (no
\* energy, and the tracker reports tempo 0 and no beats).
Silent(a) ==
    /\ a.outcome = "ok"
    /\ a.rms = 0
    /\ a.tempo_shape # "array0"
    /\ a.tempo = 0
    /\ a.beats = <<>>
NoTempo(a) == a.outcome \in {"load_raises", "empty", "feature_raises"} \/ Silent(a)

\* C4, as claimed: whenever the audio cannot be loaded, is empty, is silent
\* or a step raises, analyze_tempo returns the canonical empty signal: bpm 0,
\* category "none", confidence 0, stability 0, has_rhythm false.
C4_NoTempoGivesEmptySignal ==
    (tempo_result.kind # "unset" /\ NoTempo(audio))
        => /\ tempo_result.bpm = 0
           /\ tempo_result.tempo_category = "none"
           /\ tempo_result.tempo_confidence = 0
           /\ tempo_result.tempo_stability = 0
           /\ tempo_result.has_rhythm = FALSE

\* C5, as claimed: in every signal analyze_tempo returns, whatever tempo and
\* beats the tracker reported, has_rhythm implies bpm > 0.
C5_RhythmImpliesPositiveBpm ==
    tempo_result.kind # "unset" => (tempo_result.has_rhythm => tempo_result.bpm > 0)

-----------------------------------------------------------------------------
(* Claims about the colour extractor *)

\* The sum of the percentages of a palette, in thousandths.
PaletteSum(cs) == SumSeq([i \in 1..Len(cs) |-> cs[i].percentage])

\* C8, as claimed: the percentages of the returned palette are not negative
\* and add up to at most 1.0 (1000 thousandths; the tolerance of 1e-6 is
\* less than one thousandth), whatever the assignment of pixels to clusters.
C8_PercentagesSumToAtMostOne ==
    colors # <<>> =>
        /\ \A i \in 1..Len(colors) : colors[i].percentage >= 0
        /\ PaletteSum(colors) <= 1000

\* C8, amended: the percentages are not negative and add up to at most
\* 1.0 + 0.0005 * k for the k entries returned, each being rounded to 3
\* decimals on its own.
C8_PercentagesSumWithinRounding ==
    colors # <<>> =>
        /\ \A i \in 1..Len(colors) : colors[i].percentage >= 0
        /\ 2 * PaletteSum(colors) <= 2000 + Len(colors)

\* C8, its case: a palette of three colours whose rounded percentages add up
\* to more than 1.0.
C8_Witness == Len(colors) = 3 /\ PaletteSum(colors) > 1000

-----------------------------------------------------------------------------
(* Claims about the autoplay detector *)

\* A moov header comes before any mdat header among the box headers of the
\* file that start in its first 1MB.
MoovBeforeMdat(atoms) ==
    \E i \in 1..Len(atoms) :
        /\ atoms[i].type = "moov"
        /\ AtomOffset(atoms, i) <= OneMB
        /\ \A j \in 1..(i - 1) : atoms[j].type # "mdat"

\* C9, as claimed: for every file, _check_mp4_faststart is true if and only
\* if a moov box header comes before any mdat box header in the scanned
\* prefix.
C9_FaststartIffMoovBeforeMdat ==
    fs_pc = "done" => (fs_result <=> (mp4.can_open /\ MoovBeforeMdat(mp4.atoms)))

\* C10: for every existing file whose extension, lowercased as in
\* container_format, is outside {.mp4, .webm, .ogv}, analyze_video gives
\* autoplay_compatible = false, whatever the codecs, the size, the issues
\* and the availability of ffprobe.
C10_UnlistedContainerIsIncompatible ==
    (result.kind # "unset" /\ video_file.exists
       /\ Lower(video_file.ext) \notin WEB_COMPATIBLE_CONTAINERS)
        => result.autoplay_compatible = FALSE

\* C10, its case: an .mkv file whose codecs ffprobe found web-compatible, so
\* that no issue is left in the result, was analyzed.
C10_Witness ==
    /\ result.kind # "unset"
    /\ video_file.exists
    /\ video_file.ext = ".mkv"
    /\ video_file.has_ffprobe
    /\ result.video_codec = "h264"
    /\ result.compatibility_issues = <<>>
    /\ result.autoplay_compatible = FALSE


\* C11: for every existing file whose container is in the whitelist, the
\* verdict autoplay_compatible is false exactly when the container is not
\* .mp4 and some issue of the final list carries a "may not be
\* web-compatible" or an "Unknown codec" marker; so an .mp4 file is always
\* compatible, and a large-file issue alone never makes the verdict false.
C11_VerdictOfWhitelistedContainer ==
    (result.kind # "unset" /\ video_file.exists
       /\ Lower(video_file.ext) \in WEB_COMPATIBLE_CONTAINERS)
        => /\ result.autoplay_compatible = FALSE
                <=> /\ result.container_format # ".mp4"
                    /\ \E i \in 1..Len(result.compatibility_issues) :
                           IsCritical(result.compatibility_issues[i])
           /\ result.container_format = ".mp4" => result.autoplay_compatible
           /\ result.compatibility_issues = <<LargeFileIssue>>
                => result.autoplay_compatible

\* C11, its case: an .mp4 file of more than 50MB whose video codec ffprobe
\* found not web-compatible was analyzed, and is compatible.
C11_Witness ==
    /\ result.kind # "unset"
    /\ video_file.exists
    /\ video_file.ext = ".mp4"
    /\ result.compatibility_issues
         = <<VideoCodecIssue("hevc"), LargeFileIssue>>
    /\ result.autoplay_compatible = TRUE


\* The codec of a type could not be determined: without ffprobe the extension
\* is neither .mp4 nor .webm, or ffprobe failed on the file, or the file has
\* no stream of that type.
Undetermined(f, type) ==
    IF ~f.has_ffprobe THEN Lower(f.ext) \notin {".mp4", ".webm"}
    ELSE \/ ~f.ffprobe.ok
         \/ \A i \in 1..Len(f.ffprobe.streams) :
               f.ffprobe.streams[i].codec_type # type

\* C12, as claimed: in every result of analyze_video for an existing file,
\* video_codec and audio_codec are lowercase strings, never null, and each is
\* "unknown" whenever the codec could not be determined.
C12_CodecsAreLowercaseStrings ==
    (result.kind # "unset" /\ video_file.exists)
        => /\ result.video_codec # None
           /\ result.audio_codec # None
           /\ Lower(result.video_codec) = result.video_codec
           /\ Lower(result.audio_codec) = result.audio_codec
           /\ Undetermined(video_file, "video") => result.video_codec = "unknown"
           /\ Undetermined(video_file, "audio") => result.audio_codec = "unknown"


-----------------------------------------------------------------------------
(* Claims about the categorizer *)

\* The number of keywords, and of subcategory names, of a category that
\* occur in the tag text.
KeywordMatches(data, tag_text) ==
    Cardinality({ i \in 1..Len(data.keywords) : In(data.keywords[i], tag_text) })
SubcategoryMatches(data, tag_text) ==
    Cardinality({ j \in 1..Len(data.subcategories) :
                    In(lower(data.subcategories[j]), tag_text) })

\* The score the specification gives a category: 2 per keyword and 3 per
\* subcategory name that occurs.
CategoryScoreOf(data, tag_text) ==
    2 * KeywordMatches(data, tag_text) + 3 * SubcategoryMatches(data, tag_text)

Recorded(d, name) == \E i \in 1..Len(d) : d[i].name = name
ScoreIn(d, name) == d[CHOOSE i \in 1..Len(d) : d[i].name = name].score

\* C13, as claimed: for the tag text of every clip, a recorded top-level
\* category is scored 2 per keyword plus 3 per subcategory name occurring,
\* and every recorded "Category > Subcategory" candidate is scored at that
\* category's score plus 5, the same for every matching subcategory.
C13_CandidateIsCategoryScorePlusFive ==
    (best_category # Unset /\ db_tags # <<>>) =>
        \A c \in 1..Len(CATEGORY_HIERARCHY) :
            LET data == CATEGORY_HIERARCHY[c]
                score == CategoryScoreOf(data, TagText(db_tags))
            IN /\ Recorded(category_scores, data.category)
                    => ScoreIn(category_scores, data.category) = score
               /\ \A j \in 1..Len(data.subcategories) :
                    LET path == data.category \o " > " \o data.subcategories[j]
                    IN Recorded(category_scores, path)
                         => ScoreIn(category_scores, path) = score + 5

\* C14: categorize_video, called for a stored clip, returns a path that is
\* not empty: the first recorded of the candidates of the largest recorded
\* score, and "Uncategorized" exactly when no candidate scores above zero.
C14_BestCandidateOrSentinel ==
    best_category # Unset =>
        /\ best_category # ""
        /\ category_scores # <<>> =>
             \E i \in 1..Len(category_scores) :
                /\ category_scores[i].name = best_category
                /\ \A j \in 1..Len(category_scores) :
                      category_scores[j].score <= category_scores[i].score
                /\ \A j \in 1..(i - 1) :
                      category_scores[j].score < category_scores[i].score
        /\ best_category = "Uncategorized"
             <=> ~ \E i \in 1..Len(category_scores) : category_scores[i].score > 0

\* C14, its case: two candidates share the largest score, and the one
\* recorded first was returned.
C14_Witness ==
    /\ best_category # Unset
    /\ \E i, j \in 1..Len(category_scores) :
          /\ i < j
          /\ category_scores[i].name = best_category
          /\ category_scores[i].score = category_scores[j].score
          /\ \A k \in 1..Len(category_scores) :
                category_scores[k].score <= category_scores[i].score

\* The categories a keyword of which, and those a subcategory name of which,
\* occurs in the tag text.
KeywordCategories(tag_text) ==
    { c \in 1..Len(CATEGORY_HIERARCHY) :
        KeywordMatches(CATEGORY_HIERARCHY[c], tag_text) > 0 }
SubcategoryCategories(tag_text) ==
    { c \in 1..Len(CATEGORY_HIERARCHY) :
        SubcategoryMatches(CATEGORY_HIERARCHY[c], tag_text) > 0 }

\* The paths "Category > Subcategory" of the subcategories of a category
\* whose name occurs in the tag text.
MatchingPaths(data, tag_text) ==
    { data.category \o " > " \o data.subcategories[j] :
        j \in { k \in 1..Len(data.subcategories) :
                  In(lower(data.subcategories[k]), tag_text) } }

\* C15, as claimed: whenever the tag text holds a keyword of exactly one
\* category and a subcategory name of that category, categorize_video
\* assigns the path of one of that category's matching subcategories, never
\* the plain category.
C15_PathOfAMatchingSubcategory ==
    best_category # Unset =>
        LET tag_text == TagText(db_tags)
            with_keyword == KeywordCategories(tag_text)
            with_subcategory == SubcategoryCategories(tag_text)
        IN \A c \in with_keyword \cap with_subcategory :
              with_keyword = {c}
              => /\ best_category
                      \in MatchingPaths(CATEGORY_HIERARCHY[c], tag_text)
                 /\ best_category # CATEGORY_HIERARCHY[c].category
                 /\ db_video.category = best_category

\* The paths of all the subcategories whose name occurs in the tag text.
AllMatchingPaths(tag_text) ==
    UNION { MatchingPaths(CATEGORY_HIERARCHY[c], tag_text) :
              c \in 1..Len(CATEGORY_HIERARCHY) }

\* C15, amended: in that case categorize_video assigns the path of a
\* subcategory whose name occurs in the tag text, never a plain category;
\* the subcategory is one of that category whenever no subcategory name of
\* another category occurs in the tag text.
C15_PathOfTheOnlyMatchingCategory ==
    best_category # Unset =>
        LET tag_text == TagText(db_tags)
            with_keyword == KeywordCategories(tag_text)
            with_subcategory == SubcategoryCategories(tag_text)
        IN \A c \in with_keyword \cap with_subcategory :
              with_keyword = {c}
              => /\ best_category \in AllMatchingPaths(tag_text)
                 /\ \A d \in 1..Len(CATEGORY_HIERARCHY) :
                       best_category # CATEGORY_HIERARCHY[d].category
                 /\ db_video.category = best_category
                 /\ with_subcategory = {c}
                      => best_category
                           \in MatchingPaths(CATEGORY_HIERARCHY[c], tag_text)

\* C15, its case: the tags nature, Forest and wildlife were categorized.
C15_Witness ==
    /\ db_tags = <<"nature", "Forest", "wildlife">>
    /\ best_category = "Nature > Wildlife"
    /\ db_video.category = "Nature > Wildlife"

\* C16, as claimed: whenever categorize_video has returned a path for the
\* stored clip, "Uncategorized" and a clip without tags included, the
\* category persisted for the clip is that path.
C16_ReturnedPathIsPersisted ==
    best_category # Unset => db_video.category = best_category

\* C17, as claimed: after any sequence of categorize_video and
\* suggest_use_cases calls for the clip, the use_cases table holds at most
\* one row per use-case name.
C17_OneRowPerUseCase ==
    \A i, j \in 1..Len(db_use_cases) :
        db_use_cases[i].use_case = db_use_cases[j].use_case => i = j

\* The maximum the specification gives a rule: the weights of all the
\* criteria present in it.
MaxOfRule(rules) ==
    (IF "keywords" \in DOMAIN rules THEN 2 * Len(rules.keywords) ELSE 0)
    + (IF "moods" \in DOMAIN rules THEN 3 ELSE 0)
    + (IF "motion" \in DOMAIN rules THEN 2 ELSE 0)
    + (IF "categories" \in DOMAIN rules THEN 3 ELSE 0)
    + (IF "energy_min" \in DOMAIN rules THEN 2 ELSE 0)
    + (IF "energy_max" \in DOMAIN rules THEN 2 ELSE 0)

RuleOf(use_case) ==
    USE_CASE_RULES[CHOOSE i \in 1..Len(USE_CASE_RULES) :
                       USE_CASE_RULES[i].use_case = use_case]

\* C18, as claimed: for every clip suggest_use_cases computes a suitability
\* for every use case (it returns), and the suitability it persists is 100 *
\* achieved / max with max the sum of the weights of all the criteria
\* present in the rule.
C18_MaxIsWeightOfAllCriteria ==
    /\ use_cases.kind # "unset" => use_cases.kind = "list"
    /\ \A i \in 1..Len(db_use_cases) :
          db_use_cases[i].max_score = MaxOfRule(RuleOf(db_use_cases[i].use_case))

\* The names of the use cases a call returned, and of those persisted.
ReturnedUseCases ==
    IF use_cases.kind = "list"
    THEN { use_cases.entries[i].use_case : i \in 1..Len(use_cases.entries) }
    ELSE {}
PersistedUseCases ==
    { db_use_cases[i].use_case : i \in 1..Len(db_use_cases) }

\* C19, as claimed: after suggest_use_cases has been called once for a
\* clip, every returned entry has a suitability from 30 to 100, the list is
\* in non-increasing order, and the use cases returned are those persisted.
C19_ReturnedIsPersistedAndSorted ==
    (use_cases.kind # "unset" /\ calls = 1) =>
        /\ ReturnedUseCases = PersistedUseCases
        /\ use_cases.kind = "list" =>
             /\ \A i \in 1..Len(use_cases.entries) :
                   /\ use_cases.entries[i].suitability_score >= 300
                   /\ use_cases.entries[i].suitability_score <= 1000
             /\ \A i \in 1..(Len(use_cases.entries) - 1) :
                   use_cases.entries[i].suitability_score
                       >= use_cases.entries[i + 1].suitability_score


-----------------------------------------------------------------------------
(* Claims about authentication *)

\* C20, as claimed: for every ADMIN_USERNAME and ADMIN_PASSWORD configured,
\* authenticate_user called first with the configured user name and password
\* returns the admin user.
C20_ConfiguredAdminAuthenticates ==
    ( /\ auth_call.kind = "authenticate_user"
      /\ auth_calls = 1
      /\ auth_call.username = EnvironGet(environ, "ADMIN_USERNAME", "admin")
      /\ auth_call.password
           = EnvironGet(environ, "ADMIN_PASSWORD", "changeme123") )
    => /\ auth_call.returned # NoneResult
       /\ auth_call.returned.id = 1
       /\ auth_call.returned.username = auth_call.username

\* The user names borne by the users of the table, and the passwords stored
\* for the users that bear a name.
RegisteredUsernames(users) ==
    { users[i].user.username : i \in 1..Len(users) }
CurrentPasswords(users, username) ==
    { p \in Passwords :
        \E i \in 1..Len(users) :
            /\ users[i].user.username = username
            /\ check_password_hash(users[i].user.password_hash, p) }

\* C21, as claimed: after any create_user and change_password calls,
\* authenticate_user(u, p) returns a user exactly when u is the name of a
\* registered user and p the password last set for u; and
\* change_password(u, old, new) returns True and installs new exactly when
\* old is u's current password, and otherwise returns False and leaves the
\* table as it was.
C21_AuthenticatesIffLatestPassword ==
    /\ [](auth_call.kind = "authenticate_user"
            => ( auth_call.returned # NoneResult
                   <=> /\ auth_call.username \in RegisteredUsernames(USERS)
                       /\ auth_call.password
                            \in CurrentPasswords(USERS, auth_call.username) ))
    /\ [][ ( /\ auth_calls' = auth_calls + 1
             /\ auth_call'.kind = "change_password" )
           => LET u == auth_call'.username
                  accepted == auth_call'.old_password
                                  \in CurrentPasswords(USERS, u)
              IN /\ auth_call'.returned = accepted
                 /\ accepted
                      => CurrentPasswords(USERS', u) = {auth_call'.new_password}
                 /\ ~accepted => USERS' = USERS ]_vars

\* load_user(user_id): the users of the table that bear the id; the code
\* returns the first of them.
UsersWithId(users, user_id) ==
    { i \in 1..Len(users) : users[i].user.id = user_id }

\* C27, as claimed: after any create_user calls, calls that reuse a user
\* name included, the users of the table have pairwise distinct ids, so
\* that an id identifies at most one user.
C27_UserIdsAreDistinct ==
    \A i \in 1..Len(USERS) :
        Cardinality(UsersWithId(USERS, USERS[i].user.id)) = 1

-----------------------------------------------------------------------------
(* Claims about the order of analysis and categorization *)

\* The signal columns of the clip's row that the categorizer reads hold a
\* value: motion_level of the motion signal, energy_level of the tempo
\* signal.
SignalsPersisted(row) ==
    /\ row.motion_level # None
    /\ row.energy_level # Null

\* A call has stored a category or a use case for the clip.
AssignmentPersisted ==
    \/ /\ best_category \notin {Unset, "Uncategorized"}
       /\ db_video.category = best_category
    \/ db_use_cases # <<>>

\* C22, as claimed: categorize_video and suggest_use_cases store an
\* assignment for a clip only once the clip's signals are stored; none is
\* computed from a row whose signal columns are partly NULL.
C22_AssignmentOnlyAfterSignals ==
    AssignmentPersisted => SignalsPersisted(db_video)

-----------------------------------------------------------------------------
(* Claims about the scraping state *)

\* The pipeline threads that have been started and have not returned.
ActiveThreads == { t \in 1..Len(threads) : threads[t].pc # "done" }

\* C24, as claimed: under every interleaving of start and stop requests with
\* the pipeline, at most one pipeline thread is active; a start is accepted
\* only when no thread started before is still executing.
C24_AtMostOnePipelineThread == Cardinality(ActiveThreads) <= 1

\* The state as an accepted stop request leaves it.
Stopped == ~scraping_state.running /\ scraping_state.status = "stopped"

\* The step is an accepted start request.
StartAccepted == Len(threads') = Len(threads) + 1

\* C25, as claimed: once a stop request is accepted the state stays stopped
\* until the next accepted start: running stays false and status stays
\* "stopped", whatever the pipeline does.
C25_StoppedUntilNextStart ==
    [][ (Stopped /\ ~StartAccepted) => Stopped' ]_vars

\* The values of status at which the scraping rests.
RestingStatuses == {"idle", "completed", "stopped", "error"}

\* C26, as claimed: in every state reached running = false implies a resting
\* status, and a set error field implies the status "error".
C26_NotRunningIsResting ==
    /\ ~scraping_state.running => scraping_state.status \in RestingStatuses
    /\ scraping_state.error # None => scraping_state.status = "error"

-----------------------------------------------------------------------------
(* Claims about the categories table *)

\* The names of the hierarchy, and its (subcategory, parent) pairs.
HierarchyNames ==
    UNION { {CATEGORY_HIERARCHY[m].category}
              \cup { CATEGORY_HIERARCHY[m].subcategories[k] :
                       k \in 1..Len(CATEGORY_HIERARCHY[m].subcategories) } :
            m \in 1..Len(CATEGORY_HIERARCHY) }
HierarchyPairs ==
    UNION { { <<CATEGORY_HIERARCHY[m].subcategories[k],
                CATEGORY_HIERARCHY[m].category>> :
                k \in 1..Len(CATEGORY_HIERARCHY[m].subcategories) } :
            m \in 1..Len(CATEGORY_HIERARCHY) }

\* An initialization has run to its end and none is under way.
Initialized == init_runs >= 1 /\ init_main = 1 /\ init_sub = 0

\* C30, as claimed: after the initialization, run any number of times, the
\* categories table holds exactly one row for every name of the hierarchy
\* and a row for every (subcategory, parent) pair with that parent, a name
\* under two main categories included; a further run leaves the table as it
\* is.
C30_TableHoldsTheHierarchy ==
    /\ [](Initialized =>
            /\ \A name \in HierarchyNames :
                  Cardinality({ i \in 1..Len(categories) :
                                  categories[i].name = name }) = 1
            /\ \A i \in 1..Len(categories) :
                  categories[i].name \in HierarchyNames
            /\ \A pair \in HierarchyPairs :
                  \E i \in 1..Len(categories) :
                      /\ categories[i].name = pair[1]
                      /\ categories[i].parent_category = pair[2])
    /\ [][init_runs >= 1 => categories' = categories]_vars

-----------------------------------------------------------------------------
(* Claims about the termination of the box scan *)

\* The scan is in its loop, about to read the header at f_tell.
Scanning == fs_pc = "loop"

\* A pass of the loop returns, stops, or moves the read offset on by 9 bytes
\* or more.
ScanAdvances ==
    [][Scanning => (fs_pc' = "done" \/ f_tell' >= f_tell + 9)]_fsPosition

\* A scan ended by a truncated header, by a box other than moov and mdat
\* (one of 8 bytes or fewer, or one that ends past the bound) gave False.
ScanStoppedGivesFalse ==
    IF /\ fs_pc = "done"
       /\ mp4.can_open
       /\ Len(mp4.atoms) > 0
       /\ mp4.atoms[1].type = "ftyp"
       /\ \/ atom_idx > Len(mp4.atoms)
          \/ f_tell > OneMB
          \/ mp4.atoms[atom_idx].type \notin {"moov", "mdat"}
    THEN fs_result = FALSE
    ELSE TRUE

\* C23, as claimed: for every file the scan terminates; every pass of the
\* loop returns, stops or advances the offset by at least 9 bytes; no
\* header that starts beyond the first 1MB (at offset 1048576 or later) is
\* examined; and a truncated header, a small box and the 1MB bound give
\* False and no error.
C23_ScanWithinFirstMB ==
    /\ <>(fs_pc = "done")
    /\ ScanAdvances
    /\ [](Scanning => f_tell < OneMB)
    /\ []ScanStoppedGivesFalse

\* C23, amended: the same, the bound being on the offset the scan has
\* reached: no header that starts at an offset above 1048576 is examined,
\* while the one that starts at 1048576 is.
C23_ScanUpToOffsetOneMB ==
    /\ <>(fs_pc = "done")
    /\ ScanAdvances
    /\ [](Scanning => f_tell <= OneMB)
    /\ []ScanStoppedGivesFalse

\* A scan that the 1MB bound stopped, with a header left unread behind it.
C23_Witness ==
    /\ fs_pc = "done"
    /\ fs_result = FALSE
    /\ f_tell > OneMB
    /\ atom_idx <= Len(mp4.atoms)

-----------------------------------------------------------------------------
(* Claims about the categorizer's handling of missing data *)

\* C28, as claimed, for a stored clip: categorize_video returns a category
\* path and suggest_use_cases returns a list, neither raising, the clip's
\* category, motion_level and energy_level being set or NULL.
C28_CategorizerNeverRaises ==
    /\ use_cases # NoResult => use_cases.kind = "list"
    /\ best_category # Unset
         => \/ best_category = "Uncategorized"
            \/ Recorded(category_scores, best_category)

\* The lists that hold the tags of a list in another order.
Reorderings(tags) ==
    { [i \in 1..Len(tags) |-> tags[p[i]]] : p \in Permutations(1..Len(tags)) }

\* C29, as claimed: the category categorize_video assigns depends on the
\* tag values of the clip and not on the order they are stored in: the same
\* tags in any other order give the same category path.
C29_CategoryIgnoresTagOrder ==
    best_category # Unset
        => \A tags \in Reorderings(db_tags) :
              categorize_video(db_video, tags).best_category = best_category

====
